---- MODULE Spec2Model ----
(***************************************************************************)
(* Gesture-to-note translation engine of the air instrument:               *)
(*   AudioEngine (vision/audio_engine.py), detect_strum                    *)
(*   (src/hand_tracking.py), NoteEngine (src/note_engine.py),              *)
(*   handle_strum and MidiRecorder (vision/server.py), PoleState tracking  *)
(*   (vision/pole_detection.py).                                           *)
(*                                                                         *)
(* Real-valued quantities are carried as exact integers or rationals:      *)
(*   perpendicular distances and strum velocities in units of 1/1000,      *)
(*   durations as rationals in milliseconds,                               *)
(*   fret / pole positions as rationals [n, d] with d > 0,                 *)
(*   pole endpoints as integer pixels,                                     *)
(*   wall-clock time in ticks of 1/TicksPerMs millisecond.                 *)
(* Floating-point rounding is carried where it changes an integer result   *)
(* (the endpoint smoothing); elsewhere values are the exact reals.         *)
(* Each component has its own specification over the shared variables.     *)
(***************************************************************************)
EXTENDS Integers, Sequences, FiniteSets, TLC

VARIABLES
    \* ---- AudioEngine ----
    synth,          \* self._synth: "ready" | "deleted" (delete() ran) | "none"
    note_gen,       \* self._note_gen: pitch -> generation (absent key = 0)
    timers,         \* every threading.Timer created, in creation order
    active_timers,  \* self._active_timers: sequence of timer ids
    synth_log,      \* calls received by the synthesizer driver, in order
    pc,             \* per calling thread: position inside an AudioEngine method
    local,          \* per calling thread: locals of the method in progress
    plays,          \* number of play_note calls begun
    stops,          \* number of stop_all / shutdown calls begun
    synth_started,  \* whether _init_synth left a synthesizer (never changes)
    \* ---- strum detector ----
    fretboard,      \* FretboardState fields used by detect_strum
    strum_ret,      \* value returned by the latest detect_strum call
    strum_in,       \* the distances of the latest two calls (history variable)
    strum_quiet,    \* calls without event since the last event, -1 before it
    strum_gap,      \* strum_quiet as it was when the latest event was emitted
    strum_calls,    \* number of detect_strum calls made
    strum_emitted,  \* number of StrumEvents returned so far (history variable)
    \* ---- note engine ----
    num_strings,    \* NoteEngine.num_strings (base_midi is its table)
    note_in,        \* arguments of a compute_note call
    note_out,       \* the NoteResult it returned (NoNote before the call)
    \* ---- MIDI recorder ----
    recorder,       \* MidiRecorder: recording, events, _start_time
    now,            \* time.time(), in ticks of 1/TicksPerMs ms
    rec_ret,        \* the list returned by the latest stop()
    rec_alias,      \* that list is the very object self.events refers to
    rec_calls,      \* record() calls since the latest start() (history variable)
    rec_open,       \* a start() has not yet been followed by a stop() (history)
    rec_closed,     \* rec_calls and start tick of the session the latest stop() closed
    rec_count,      \* number of record() calls made
    rec_trace,      \* which record() call each entry of a list came from (history)
    \* ---- pole tracker ----
    pole,           \* PoleState: end_a, end_b, detected, position
    pole_raw,       \* what detect_pole_endpoints returned in the latest frame
    pole_hand,      \* the fret hand's grip point in the latest frame, if any
    proj_in,        \* endpoints and two reference points for the projection
    proj_out,       \* compute_pole_position of each of the two points
    \* ---- strum handling ----
    phone,          \* PhoneState: connected, touches, motion, last_update
    conns,          \* phone server: per connection, "closed" or "open"
    phone_ev,       \* the latest event of the phone server: kind and connection
    last_notes,     \* fretboard.last_notes and last_note_time
    handled,        \* the latest handle_strum call: its inputs and note calls
    strums,         \* number of handle_strum calls made
    \* ---- browser bridge ----
    bridge,         \* one browser connection: socket, handler, the two tasks
    program,        \* AudioEngine._program, the active instrument
    last_cmd,       \* the latest command received and what it led to
    cmds,           \* number of commands received
    \* ---- capture loop and the phone lock ----
    plock,          \* phone_lock: "free", or the thread inside a with block
    net,            \* network thread: inside a with block, writes still to do
    main_pc,        \* capture thread: position inside one tick of run()
    phone_snap,           \* the PhoneState the capture thread is building / using
    snap_todo,      \* fields of the snapshot not yet copied
    snap_at,        \* the shared state when the copy began (history variable)
    \* ---- inference result slot ----
    latest_result,  \* self._latest_result: NoResult, or the frame a result is of
    submitted,      \* frames handed to detect_async so far
    last_cb,        \* frame of the latest completed callback (history variable)
    tick_pc,        \* capture thread: before detect_async, or before the read
    tick_reads,     \* what each tick read from the slot, in order (history)
    \* ---- outbound video frames ----
    latest_jpeg,    \* producer.latest_jpeg: NoJpeg, or the number of a frame
    made,           \* frames published so far (history variable)
    stream,         \* one send_frames task: position, locals, what it sent
    \* ---- startup ----
    boot,           \* main(): what the machine offers, where each thread is
    \* ---- hands of one tick ----
    swap_hands,     \* config.SWAP_HANDS as the session was configured
    wrists,         \* fretboard.left_wrist and right_wrist (smoothed, or None)
    hand_in,        \* the detection result the latest tick read from the slot
    roles,          \* what identify_hands returned in the latest tick
    hand_ticks      \* number of ticks run

audioVars == <<synth, note_gen, timers, active_timers, synth_log, pc, local,
               plays, stops>>

strumVars == <<fretboard, strum_ret, strum_in, strum_quiet, strum_gap,
               strum_calls, strum_emitted>>

noteVars == <<num_strings, note_in, note_out>>

recVars == <<recorder, now, rec_ret, rec_alias, rec_calls, rec_open, rec_closed,
             rec_count, rec_trace>>

poleVars == <<pole, pole_raw, pole_hand>>
projVars == <<proj_in, proj_out>>

handleVars == <<phone, last_notes, handled, strums>>
phoneVars == <<conns, phone_ev>>
bridgeVars == <<bridge, program, last_cmd, cmds>>

\* written by the constructor only
startVars == <<synth_started>>

lockVars == <<plock, net, main_pc, phone_snap, snap_todo, snap_at>>
slotVars == <<latest_result, submitted, last_cb, tick_pc, tick_reads>>
streamVars == <<latest_jpeg, made, stream>>
bootVars == <<boot>>
runVars == <<lockVars, slotVars, streamVars, bootVars>>
handsVars == <<swap_hands, wrists, hand_in, roles, hand_ticks>>

vars == <<audioVars, startVars, strumVars, noteVars, recVars, poleVars, projVars,
          handleVars, phoneVars, bridgeVars, runVars, handsVars>>

nonAudioVars == <<startVars, handsVars, runVars, strumVars, noteVars, recVars, poleVars, projVars, handleVars, phoneVars, bridgeVars>>
nonStrumVars == <<startVars, handsVars, runVars, audioVars, noteVars, recVars, poleVars, projVars, handleVars, phoneVars, bridgeVars>>
nonNoteVars == <<startVars, handsVars, runVars, audioVars, strumVars, recVars, poleVars, projVars, handleVars, phoneVars, bridgeVars>>
nonRecVars == <<startVars, handsVars, runVars, audioVars, strumVars, noteVars, poleVars, projVars, handleVars, phoneVars, bridgeVars>>
nonPoleVars == <<startVars, handsVars, runVars, audioVars, strumVars, noteVars, recVars, projVars, handleVars, phoneVars, bridgeVars>>
nonProjVars == <<startVars, handsVars, runVars, audioVars, strumVars, noteVars, recVars, poleVars, handleVars, phoneVars, bridgeVars>>
\* what the strum handler's component leaves alone
nonHandleVars == <<startVars, handsVars, runVars, strumVars, noteVars, projVars, bridgeVars>>

-----------------------------------------------------------------------------
(* Generic helpers *)

Max(a, b) == IF a >= b THEN a ELSE b
Min(a, b) == IF a <= b THEN a ELSE b
Abs(x) == IF x < 0 THEN -x ELSE x

\* min(hi, max(lo, x)) -- Python max(lo, min(hi, x)) / np.clip(x, lo, hi)
Clip(x, lo, hi) == Max(lo, Min(hi, x))

\* floor(n / d) for d > 0 (TLA+ \div already floors)
FloorDiv(n, d) == n \div d

\* Python round(n / d) for d > 0: nearest integer, ties to the even one
RoundHalfEven(n, d) ==
    LET q == n \div d
        r == n % d
    IN  IF 2 * r < d THEN q
        ELSE IF 2 * r > d THEN q + 1
        ELSE IF q % 2 = 0 THEN q ELSE q + 1

SeqIndices(s) == 1..Len(s)

\* Rationals n/d with d > 0 stand for the program's floats
Rat(n, d) == [n |-> n, d |-> d]
RLe(a, b) == a.n * b.d <= b.n * a.d
RLt(a, b) == a.n * b.d < b.n * a.d
REq(a, b) == a.n * b.d = b.n * a.d
RECURSIVE Gcd(_, _)
Gcd(a, b) == IF b = 0 THEN a ELSE Gcd(b, a % b)
\* the same number in lowest terms (one representation per value)
RNorm(a) == LET g == Gcd(Abs(a.n), a.d) IN Rat(a.n \div g, a.d \div g)
\* np.clip(x, 0.0, 1.0)
RClip01(a) == IF a.n < 0 THEN Rat(0, 1) ELSE IF a.n > a.d THEN Rat(1, 1) ELSE a

-----------------------------------------------------------------------------
(* AudioEngine -- vision/audio_engine.py *)

\* Bounds of the audio model
MaxPlays == 2
MaxStops == 1

\* Calling threads: both may call play_note; stop_all and shutdown are called
\* from one of them (shutdown runs once the capture loop has ended)
Threads == {"capture", "control"}
Stoppers == {"control"}

\* Arguments handed to play_note (out-of-range values included: the method clamps)
PlayInputs == {<<60, 100>>, <<200, 300>>}

MidiNotes == 0..127

NoLocal == [note |-> 0, vel |-> 0, gen |-> 0, onAt |-> 0, timer |-> 0]

\* Mutant of Ready: the engine always reports ready
Ready_Always == TRUE

\* ready property: self._synth is not None
Ready == synth # "none"

\* note_gen.get(midi_note, 0)
GenOf(n) == IF n \in DOMAIN note_gen THEN note_gen[n] ELSE 0

\* one call on the synthesizer object; live = the object had not been deleted
SynthCall(op, notes, vel, by, tid) ==
    [op |-> op, notes |-> notes, vel |-> vel, by |-> by, tid |-> tid,
     live |-> (synth = "ready")]

AudioInit ==
    /\ synth \in {"ready", "none"}       \* _init_synth succeeded or failed
    /\ synth_started = (synth = "ready")
    /\ note_gen = << >>
    /\ timers = << >>
    /\ active_timers = << >>
    /\ synth_log = << >>
    /\ pc = [t \in Threads |-> "idle"]
    /\ local = [t \in Threads |-> NoLocal]
    /\ plays = 0
    /\ stops = 0

\* play_note, lines 120-124: ready check, clamp of the arguments
PlayNoteBegin(t, n, v) ==
    /\ pc[t] = "idle"
    /\ plays < MaxPlays
    /\ plays' = plays + 1
    /\ IF ~Ready
         THEN UNCHANGED <<pc, local>>
         ELSE /\ pc' = [pc EXCEPT ![t] = "play_lock"]
              /\ local' = [local EXCEPT ![t] =
                    [NoLocal EXCEPT !.note = Clip(n, 0, 127),
                                    !.vel = Clip(v, 0, 127)]]
    /\ UNCHANGED <<synth, note_gen, timers, active_timers, synth_log, stops>>

\* the generation a play_note call takes for pitch n (line 128)
NextGen(n) == GenOf(n) + 1

\* play_note, lines 126-130: under the lock, bump the generation, send noteon.
\* With self._synth already None the noteon raises after the bump.
PlayNoteLocked(t) ==
    /\ pc[t] = "play_lock"
    /\ LET n == local[t].note
           gen == NextGen(n)
       IN  /\ note_gen' = [k \in (DOMAIN note_gen) \cup {n} |->
                              IF k = n THEN gen ELSE note_gen[k]]
           /\ IF synth = "none"
                THEN /\ pc' = [pc EXCEPT ![t] = "raised"]
                     /\ UNCHANGED <<synth_log, local>>
                ELSE /\ synth_log' = Append(synth_log,
                            SynthCall("noteon", {n}, local[t].vel, "play", 0))
                     /\ local' = [local EXCEPT ![t].gen = gen,
                                               ![t].onAt = Len(synth_log) + 1]
                     /\ pc' = [pc EXCEPT ![t] = "play_timer"]
    /\ UNCHANGED <<synth, timers, active_timers, plays, stops>>

\* play_note, lines 132-136: create and start the timer for (midi_note, gen).
\* onAt (position of the call's noteon in synth_log), startLen (length of
\* synth_log when the timer was started), firedAt and sent are history fields
\* kept for the properties.
PlayNoteStartTimer(t) ==
    /\ pc[t] = "play_timer"
    /\ timers' = Append(timers,
            [note |-> local[t].note, gen |-> local[t].gen,
             onAt |-> local[t].onAt, startLen |-> Len(synth_log),
             st |-> "waiting", firedAt |-> 0, sent |-> FALSE])
    /\ local' = [local EXCEPT ![t].timer = Len(timers) + 1]
    /\ pc' = [pc EXCEPT ![t] = "play_append"]
    /\ UNCHANGED <<synth, note_gen, active_timers, synth_log, plays, stops>>

\* play_note, lines 138-139: under the lock, remember the timer
PlayNoteAppend(t) ==
    /\ pc[t] = "play_append"
    /\ active_timers' = Append(active_timers, local[t].timer)
    /\ pc' = [pc EXCEPT ![t] = "idle"]
    /\ local' = [local EXCEPT ![t] = NoLocal]
    /\ UNCHANGED <<synth, note_gen, timers, synth_log, plays, stops>>

\* threading.Timer elapses and calls _note_off; lines 143-144: ready check
TimerFire(i) ==
    /\ i \in SeqIndices(timers)
    /\ timers[i].st = "waiting"
    /\ timers' = [timers EXCEPT ![i].st = IF Ready THEN "running" ELSE "done"]
    /\ UNCHANGED <<synth, note_gen, active_timers, synth_log, pc, local,
                   plays, stops>>

\* Mutant of NoteOffCurrent: the callback ignores the generation
NoteOffCurrent_NoGenCheck(midi_note, gen) == TRUE

\* Mutant of NoteOffCurrent: only the first generation of a pitch is ended
NoteOffCurrent_FirstGenOnly(midi_note, gen) == gen = 1 /\ GenOf(midi_note) = gen

\* _note_off line 146: the callback sends its noteoff only for the latest
\* generation of its pitch
NoteOffCurrent(midi_note, gen) == GenOf(midi_note) = gen

\* _note_off, lines 145-148: under the lock, generation check, then noteoff.
\* With self._synth already None the noteoff raises in the timer thread.
NoteOffLocked(i) ==
    /\ i \in SeqIndices(timers)
    /\ timers[i].st = "running"
    /\ IF ~NoteOffCurrent(timers[i].note, timers[i].gen)
         THEN /\ timers' = [timers EXCEPT ![i].st = "done",
                                          ![i].firedAt = Len(synth_log) + 1]
              /\ UNCHANGED synth_log
         ELSE IF synth = "none"
         THEN /\ timers' = [timers EXCEPT ![i].st = "raised",
                                          ![i].firedAt = Len(synth_log) + 1]
              /\ UNCHANGED synth_log
         ELSE /\ timers' = [timers EXCEPT ![i].st = "done",
                                          ![i].firedAt = Len(synth_log) + 1,
                                          ![i].sent = TRUE]
              /\ synth_log' = Append(synth_log,
                    SynthCall("noteoff", {timers[i].note}, 0, "timer", i))
    /\ UNCHANGED <<synth, note_gen, active_timers, pc, local, plays, stops>>

\* timer.cancel(): only a timer still waiting is stopped
Cancelled(ts, ids) ==
    [i \in SeqIndices(ts) |->
        IF i \in ids /\ ts[i].st = "waiting"
          THEN [ts[i] EXCEPT !.st = "cancelled"] ELSE ts[i]]

SeqRange(s) == {s[i] : i \in SeqIndices(s)}

\* stop_all, lines 152-160, one critical section: cancel and forget the listed
\* timers, then noteoff for every note 0..127 on channel 0
StopAllEffect ==
    /\ timers' = Cancelled(timers, SeqRange(active_timers))
    /\ active_timers' = << >>
    /\ synth_log' = IF synth # "none"
                      THEN Append(synth_log,
                              SynthCall("noteoff", MidiNotes, 0, "stop_all", 0))
                      ELSE synth_log

StopAll(t) ==
    /\ pc[t] = "idle"
    /\ stops < MaxStops
    /\ stops' = stops + 1
    /\ StopAllEffect
    /\ UNCHANGED <<synth, note_gen, pc, local, plays>>

\* shutdown, line 164: stop_all()
ShutdownStopAll(t) ==
    /\ pc[t] = "idle"
    /\ stops < MaxStops
    /\ stops' = stops + 1
    /\ StopAllEffect
    /\ pc' = [pc EXCEPT ![t] = "shutdown_check"]
    /\ UNCHANGED <<synth, note_gen, local, plays>>

\* shutdown, lines 165-166: if self._synth is not None: self._synth.delete()
ShutdownDelete(t) ==
    /\ pc[t] = "shutdown_check"
    /\ IF synth = "none"
         THEN /\ pc' = [pc EXCEPT ![t] = "idle"]
              /\ UNCHANGED synth
         ELSE /\ synth' = "deleted"
              /\ pc' = [pc EXCEPT ![t] = "shutdown_clear"]
    /\ UNCHANGED <<note_gen, timers, active_timers, synth_log, local, plays,
                   stops>>

\* shutdown, line 167: self._synth = None
ShutdownClear(t) ==
    /\ pc[t] = "shutdown_clear"
    /\ synth' = "none"
    /\ pc' = [pc EXCEPT ![t] = "idle"]
    /\ UNCHANGED <<note_gen, timers, active_timers, synth_log, local, plays,
                   stops>>

-----------------------------------------------------------------------------
(* Strum detector -- src/hand_tracking.py detect_strum, FretboardState *)
(* Distances and velocities are integers in units of 1/1000.            *)

\* Bound of the strum model: number of frames fed to detect_strum
MaxStrumCalls == 7

\* config.py (0.008 in units of 1/1000), models.py, hand_tracking.py
STRUM_VELOCITY_THRESHOLD == 8
STRUM_COOLDOWN_FRAMES == 4
PerpHistoryMaxLen == 5
StrumFlashFrames == 18

\* Perpendicular distances fed to the detector: both signs, zero, and pairs
\* whose difference is exactly at (8) and just above (9) the threshold
DistVals == {-5, -4, 0, 4}

\* return value None
NoEvent == [direction |-> "none", velocity |-> 0]
StrumEvent(direction, velocity) == [direction |-> direction, velocity |-> velocity]

\* FretboardState() defaults (the wall-clock stamp last_strum_time, which the
\* detector writes and never reads, is not carried)
FretboardInit ==
    [prev_perp_dist |-> 0, strum_cooldown |-> 0, last_strum_direction |-> "",
     strum_count |-> 0, perp_history |-> << >>, strum_flash_frames |-> 0]

\* deque(maxlen=5).append
DequeAppend(h, x) ==
    IF Len(h) < PerpHistoryMaxLen THEN Append(h, x) ELSE Append(Tail(h), x)

\* Mutant of InCooldown: the cooldown branch is never taken
InCooldown_Never(fb) == FALSE

\* line 82
InCooldown(fb) == fb.strum_cooldown > 0

\* Mutant of CrossedFast: only a crossing from below to above is taken
CrossedFast_UpwardOnly(prev, perp_dist) ==
    /\ prev < 0 /\ perp_dist > 0
    /\ Abs(perp_dist - prev) > STRUM_VELOCITY_THRESHOLD

\* Mutant of CrossedFast: the velocity threshold is not applied
CrossedFast_NoThreshold(prev, perp_dist) == prev * perp_dist < 0

\* lines 92-94: sign change whose magnitude exceeds the threshold
CrossedFast(prev, perp_dist) ==
    /\ prev * perp_dist < 0
    /\ Abs(perp_dist - prev) > STRUM_VELOCITY_THRESHOLD

\* Mutant of StrumDirection: the comparison is the other way round
StrumDirection_Inverted(prev, perp_dist) == IF perp_dist < prev THEN "down" ELSE "up"

\* line 95
StrumDirection(prev, perp_dist) == IF perp_dist > prev THEN "down" ELSE "up"

\* Mutant of CountAfter: only a down strum is counted
CountAfter_DownOnly(fb, direction) ==
    IF direction = "down" THEN fb.strum_count + 1 ELSE fb.strum_count

\* line 99
CountAfter(fb, direction) == fb.strum_count + 1

\* detect_strum as a function of (state, input): new state and return value
DetectStrum(fb, perp_dist) ==
    LET h == DequeAppend(fb.perp_history, perp_dist)
        fb1 == [fb EXCEPT !.perp_history = h]
        prev == fb.prev_perp_dist
    IN  IF InCooldown(fb)
          THEN [fb |-> [fb1 EXCEPT !.strum_cooldown = fb.strum_cooldown - 1,
                                   !.prev_perp_dist = perp_dist],
                ev |-> NoEvent]
        ELSE IF Len(h) < 2
          THEN [fb |-> [fb1 EXCEPT !.prev_perp_dist = perp_dist], ev |-> NoEvent]
        ELSE IF CrossedFast(prev, perp_dist)
          THEN LET direction == StrumDirection(prev, perp_dist)
               IN  [fb |-> [fb1 EXCEPT !.strum_cooldown = STRUM_COOLDOWN_FRAMES,
                                       !.last_strum_direction = direction,
                                       !.strum_count = CountAfter(fb, direction),
                                       !.strum_flash_frames = StrumFlashFrames,
                                       !.prev_perp_dist = perp_dist],
                    ev |-> StrumEvent(direction, Abs(perp_dist - prev))]
        ELSE [fb |-> [fb1 EXCEPT !.prev_perp_dist = perp_dist], ev |-> NoEvent]

StrumInit ==
    /\ fretboard = FretboardInit
    /\ strum_ret = NoEvent
    /\ strum_in = << >>
    /\ strum_quiet = -1
    /\ strum_gap = -1
    /\ strum_calls = 0
    /\ strum_emitted = 0

\* one frame: detect_strum(fretboard, perp_dist)
DetectStrumCall(perp_dist) ==
    /\ strum_calls < MaxStrumCalls
    /\ strum_calls' = strum_calls + 1
    /\ LET r == DetectStrum(fretboard, perp_dist)
       IN  /\ fretboard' = r.fb
           /\ strum_ret' = r.ev
           /\ strum_quiet' = IF r.ev # NoEvent THEN 0
                             ELSE IF strum_quiet >= 0 THEN strum_quiet + 1
                             ELSE strum_quiet
           /\ strum_gap' = IF r.ev # NoEvent THEN strum_quiet ELSE strum_gap
           /\ strum_emitted' = IF r.ev # NoEvent THEN strum_emitted + 1 ELSE strum_emitted
    /\ strum_in' = IF strum_in = << >> THEN <<perp_dist>>
                   ELSE <<strum_in[Len(strum_in)], perp_dist>>

-----------------------------------------------------------------------------
(* Note engine -- src/note_engine.py with the constants of config.py *)
(* Strum velocities are integers in units of 1/1000; fret and pole      *)
(* positions are rationals; durations are rationals in milliseconds.    *)

\* Bounds of the note model: resolution of the fret and pole positions
FretGrid == 4
PoleGrid == 4

\* config.py
NUM_FRETS == 6
POLE_SEMITONE_RANGE == 14
MIDI_VELOCITY_MIN == 70
MIDI_VELOCITY_MAX == 110
NOTE_DURATION_MIN == 1500
NOTE_DURATION_MAX == 2500
STRUM_VEL_MAP_MIN == 20
STRUM_VEL_MAP_MAX == 150

STRING_BASE_MIDI_6 == <<40, 45, 50, 55, 59, 64>>
STRING_BASE_MIDI_5 == <<40, 45, 50, 55, 59>>
STRING_BASE_MIDI_4 == <<40, 45, 50, 55>>
STRING_BASE_MIDI_3 == <<40, 45, 50>>
STRING_BASE_MIDI(n) ==
    CASE n = 3 -> STRING_BASE_MIDI_3
      [] n = 4 -> STRING_BASE_MIDI_4
      [] n = 5 -> STRING_BASE_MIDI_5
      [] n = 6 -> STRING_BASE_MIDI_6

NOTE_NAMES == <<"C", "C#", "D", "D#", "E", "F", "F#", "G", "G#", "A", "A#", "B">>

\* midi_note_name: name and octave of the f-string
MidiNoteName(midi_note) ==
    [name |-> NOTE_NAMES[(midi_note % 12) + 1], octave |-> (midi_note \div 12) - 1]

\* NoteEngine.__init__: num_strings clamped to 3..6
EngineStrings(n) == Max(3, Min(6, n))

\* Mutant of StringIdx: a negative index counts from the end of the table,
\* as Python's own indexing would
StringIdx_NegativeWraps(num, string_index) ==
    IF string_index < 0 THEN Max(0, num + string_index)
    ELSE Min(string_index, num - 1)

\* _string_to_base_midi: index clamped into the table (0-based)
StringIdx(num, string_index) == Max(0, Min(string_index, num - 1))
StringToBaseMidi(num, string_index) ==
    STRING_BASE_MIDI(num)[StringIdx(num, string_index) + 1]

\* Mutant of FretToSemitones: the product is clipped to NUM_FRETS
FretToSemitones_ClipsToNumFrets(fret_y) ==
    IF fret_y.n * NUM_FRETS <= 0 THEN 0
    ELSE IF fret_y.n * NUM_FRETS >= NUM_FRETS * fret_y.d THEN NUM_FRETS
    ELSE FloorDiv(fret_y.n * NUM_FRETS, fret_y.d)

\* _fret_to_semitones: int(np.clip(fret_y * NUM_FRETS, 0, NUM_FRETS - 1))
FretToSemitones(fret_y) ==
    IF fret_y.n * NUM_FRETS <= 0 THEN 0
    ELSE IF fret_y.n * NUM_FRETS >= (NUM_FRETS - 1) * fret_y.d THEN NUM_FRETS - 1
    ELSE FloorDiv(fret_y.n * NUM_FRETS, fret_y.d)

\* Mutant of PoleToSemitones: the position is not clipped first
PoleToSemitones_Unclipped(pole_position) ==
    RoundHalfEven(pole_position.n * POLE_SEMITONE_RANGE, pole_position.d)

\* _pole_to_semitones: int(round(clip(pole_position, 0, 1) * POLE_SEMITONE_RANGE))
PoleToSemitones(pole_position) ==
    LET t == RClip01(pole_position)
    IN  RoundHalfEven(t.n * POLE_SEMITONE_RANGE, t.d)

\* Mutant of VelocityT: the normalised velocity is not clipped to [0, 1]
VelocityT_Unclipped(strum_velocity) ==
    Rat(strum_velocity - STRUM_VEL_MAP_MIN, STRUM_VEL_MAP_MAX - STRUM_VEL_MAP_MIN)

\* t = np.clip((v - MIN) / (MAX - MIN), 0.0, 1.0)
VelocityT(strum_velocity) ==
    RClip01(Rat(strum_velocity - STRUM_VEL_MAP_MIN,
                STRUM_VEL_MAP_MAX - STRUM_VEL_MAP_MIN))

\* _velocity_to_midi: int(MIN + t * (MAX - MIN)) (int truncates toward zero)
VelocityToMidi(strum_velocity) ==
    LET t == VelocityT(strum_velocity)
        num == MIDI_VELOCITY_MIN * t.d + t.n * (MIDI_VELOCITY_MAX - MIDI_VELOCITY_MIN)
    IN  IF num >= 0 THEN num \div t.d ELSE -((-num) \div t.d)

\* _velocity_to_duration: MIN + t * (MAX - MIN), in milliseconds
VelocityToDuration(strum_velocity) ==
    LET t == VelocityT(strum_velocity)
    IN  Rat(NOTE_DURATION_MIN * t.d + t.n * (NOTE_DURATION_MAX - NOTE_DURATION_MIN),
            t.d)

\* compute_note
ComputeNote(num, string_index, fret_y, pole_position, strum_velocity) ==
    LET base == StringToBaseMidi(num, string_index)
        fret_semitones == FretToSemitones(fret_y)
        pole_semitones == PoleToSemitones(pole_position)
        midi_note == Clip(base + pole_semitones + fret_semitones, 0, 127)
    IN  [midi_note |-> midi_note,
         velocity |-> VelocityToMidi(strum_velocity),
         duration |-> VelocityToDuration(strum_velocity),
         name |-> MidiNoteName(midi_note)]

\* Arguments tried: string indices around the table, positions on a grid that
\* reaches outside [0, 1], velocities around the mapping range
NumStringsArgs == 2..7
StringArgs == -1..6
FretArgs == {Rat(k, FretGrid) : k \in -1..(FretGrid + 1)}
PoleArgs == {Rat(k, PoleGrid) : k \in -1..(PoleGrid + 1)}
VelocityArgs == {-10, 9, 20, 50, 85, 150, 400}

NoNote == [midi_note |-> -1, velocity |-> -1, duration |-> Rat(0, 1),
           name |-> [name |-> "", octave |-> 0]]

NoteInit ==
    /\ num_strings = EngineStrings(6)     \* FrameProducer: NoteEngine(num_strings=6)
    /\ note_in = [string_index |-> 0, fret_y |-> Rat(0, 1),
                  pole_position |-> Rat(0, 1), strum_velocity |-> 0]
    /\ note_out = NoNote

\* NoteEngine(n) with any argument, and the arguments of one call
NoteInputs ==
    /\ num_strings \in {EngineStrings(n) : n \in NumStringsArgs}
    /\ note_in \in [string_index : StringArgs, fret_y : FretArgs,
                    pole_position : PoleArgs, strum_velocity : VelocityArgs]
    /\ note_out = NoNote

\* result = engine.compute_note(...)
ComputeNoteCall ==
    /\ note_out = NoNote
    /\ note_out' = ComputeNote(num_strings, note_in.string_index, note_in.fret_y,
                               note_in.pole_position, note_in.strum_velocity)
    /\ UNCHANGED <<num_strings, note_in>>

-----------------------------------------------------------------------------
(* MIDI recorder -- vision/server.py MidiRecorder *)
(* Every method is one critical section under self._lock.  time.time() is  *)
(* a non-decreasing clock counted in ticks; event times are milliseconds.  *)

\* Bounds of the recorder model
TicksPerMs == 3
MaxClock == 6
MaxRecords == 3

\* round(x, 3) of a time of `ticks` ticks: whole milliseconds
RoundMs(ticks) == RoundHalfEven(ticks, TicksPerMs)

\* Mutant of RecordTime: the event carries the absolute clock value
RecordTime_Absolute(t, start_time) == RoundMs(t)

\* line 122: round(time.time() - self._start_time, 3)
RecordTime(t, start_time) == RoundMs(t - start_time)

\* line 125: round(duration, 3)
RoundDuration(duration) == RoundHalfEven(duration.n, duration.d)

\* the dict appended by record()
MidiEvent(t, start_time, note) ==
    [time |-> RecordTime(t, start_time), midi_note |-> note.midi_note,
     velocity |-> note.velocity, duration |-> RoundDuration(note.duration),
     name |-> note.name]

\* Mutant of Record: the recording flag is not consulted
Record_Always(rec, t, note) ==
    [rec EXCEPT !.events = Append(rec.events, MidiEvent(t, rec.start_time, note))]

\* Mutant of Record: nothing is recorded while the engine is not ready
Record_OnlyWhenReady(rec, t, note) ==
    IF ~rec.recording \/ ~Ready THEN rec
    ELSE [rec EXCEPT !.events = Append(rec.events, MidiEvent(t, rec.start_time, note))]

\* record() as a function of the recorder
Record(rec, t, note) ==
    IF ~rec.recording THEN rec
    ELSE [rec EXCEPT !.events = Append(rec.events, MidiEvent(t, rec.start_time, note))]

\* notes handed to record(): results of compute_note
RecNotes == {ComputeNote(6, si, Rat(0, 1), Rat(0, 1), 50) : si \in {0, 5}}

RecorderInit ==
    /\ recorder = [recording |-> FALSE, events |-> << >>, start_time |-> 0]
    /\ now = 0
    /\ rec_ret = << >>
    /\ rec_alias = FALSE
    /\ rec_calls = << >>
    /\ rec_open = FALSE
    /\ rec_closed = [valid |-> FALSE, calls |-> << >>, start_at |-> 0]
    /\ rec_count = 0
    /\ rec_trace = [ids |-> << >>, ret_ids |-> << >>, returned |-> {},
                    discarded |-> {}]

\* the wall clock advances
ClockTick(d) ==
    /\ now + d <= MaxClock
    /\ now' = now + d
    /\ UNCHANGED <<recorder, rec_ret, rec_alias, rec_calls, rec_open, rec_closed,
                   rec_count, rec_trace>>

\* the list a stop() returned, as the caller sees it once self.events has
\* been appended to in place: changed with it if it is the same object
ReturnedAfter(rec) == IF rec_alias THEN rec.events ELSE rec_ret

\* the record() calls the entries of self.events came from, after a step
\* that takes the list from `before` to `after`: entries appended by the
\* step come from the calls `new_ids`, a list bound anew has no entries
IdsAfter(ids, before, after, new_ids) ==
    IF after = << >> THEN << >>
    ELSE IF Len(after) > Len(before) THEN ids \o new_ids
    ELSE ids

\* MidiRecorder.start; line 108 binds self.events to a new list
RecorderStart ==
    /\ recorder' = [recording |-> TRUE, events |-> << >>, start_time |-> now]
    /\ rec_alias' = FALSE
    /\ rec_calls' = << >>
    /\ rec_open' = TRUE
    /\ rec_trace' = [rec_trace EXCEPT
                        !.ids = << >>,
                        !.discarded = @ \cup {rec_trace.ids[i] : i \in DOMAIN rec_trace.ids}]
    /\ UNCHANGED <<now, rec_ret, rec_closed, rec_count>>

\* Mutant of StopHandOff: stop returns self.events itself and empties it in
\* place on the next start
StopHandOff_SameList(rec) ==
    [ret |-> rec.events, alias |-> TRUE, rec |-> [rec EXCEPT !.recording = FALSE]]

\* Mutant of StopHandOff: stop returns a copy and leaves self.events as it is
StopHandOff_KeepsEvents(rec) ==
    [ret |-> rec.events, alias |-> FALSE, rec |-> [rec EXCEPT !.recording = FALSE]]

\* lines 112-115: the flag is cleared, list(self.events) is a new list with
\* the same entries, self.events is bound to another new, empty list
StopHandOff(rec) ==
    [ret |-> rec.events, alias |-> FALSE,
     rec |-> [rec EXCEPT !.recording = FALSE, !.events = << >>]]

\* MidiRecorder.stop
RecorderStop ==
    /\ rec_ret' = StopHandOff(recorder).ret
    /\ rec_alias' = StopHandOff(recorder).alias
    /\ recorder' = StopHandOff(recorder).rec
    /\ rec_closed' = [valid |-> rec_open, calls |-> rec_calls,
                      start_at |-> recorder.start_time]
    /\ rec_open' = FALSE
    /\ rec_calls' = << >>
    /\ rec_trace' = [rec_trace EXCEPT
                        !.ids = IdsAfter(@, recorder.events,
                                         StopHandOff(recorder).rec.events, << >>),
                        !.ret_ids = rec_trace.ids,
                        !.returned = @ \cup {rec_trace.ret_ids[i] :
                                               i \in DOMAIN rec_trace.ret_ids}]
    /\ UNCHANGED <<now, rec_count>>

\* MidiRecorder.record
RecorderRecord(note) ==
    /\ rec_count < MaxRecords
    /\ rec_count' = rec_count + 1
    /\ recorder' = Record(recorder, now, note)
    /\ rec_ret' = ReturnedAfter(Record(recorder, now, note))
    /\ rec_calls' = IF rec_open
                      THEN Append(rec_calls, [note |-> note, at |-> now,
                                              id |-> rec_count + 1])
                      ELSE rec_calls
    /\ rec_trace' = [rec_trace EXCEPT
                        !.ids = IdsAfter(@, recorder.events,
                                         Record(recorder, now, note).events,
                                         <<rec_count + 1>>)]
    /\ UNCHANGED <<now, rec_alias, rec_open, rec_closed>>

-----------------------------------------------------------------------------
(* Pole tracker -- vision/pole_detection.py, PoleState, and the part of   *)
(* FrameProducer.run that stores the projected position.                  *)
(* Endpoints are integer pixels; the reference point is a normalised      *)
(* landmark (rational), scaled by the frame size as in the code.          *)

\* Bounds of the pole model: pixel grid and landmark resolution
MaxPixX == 6
MaxPixY == 1
WristGrid == 4

\* frame.shape: pixels 0..MaxPixX by 0..MaxPixY
FrameW == MaxPixX + 1
FrameH == MaxPixY + 1

\* config.py POLE_SMOOTH_ALPHA = 0.6, as the fraction 6/10
AlphaNum == 6
AlphaDen == 10

NoPoint == [set |-> FALSE, x |-> 0, y |-> 0]          \* None
Pt(x, y) == [set |-> TRUE, x |-> x, y |-> y]          \* (x, y)

\* Pairs (old, new) in 0..12 for which the double old*0.6 + new*(1-0.6)
\* falls just below the exact integer value, so int() gives one less
FloatShort == {<<6, 1>>, <<12, 2>>}

\* int(old * alpha + new * (1 - alpha)) on non-negative pixel coordinates
SmoothCoord(old, new) ==
    LET exact == FloorDiv(AlphaNum * old + (AlphaDen - AlphaNum) * new, AlphaDen)
    IN  IF <<old, new>> \in FloatShort THEN exact - 1 ELSE exact

\* _smooth_point
SmoothPoint(old, new) ==
    IF ~old.set THEN new
    ELSE Pt(SmoothCoord(old.x, new.x), SmoothCoord(old.y, new.y))

\* update_pole_state, lines 118-122: the else branch
MissedDetection(p) ==
    IF ~p.end_a.set \/ ~p.end_b.set THEN [p EXCEPT !.detected = FALSE] ELSE p

\* Mutant of UpdatePoleState: each endpoint is smoothed towards the other
\* raw endpoint
UpdatePoleState_Crossed(p, raw) ==
    IF raw.a.set /\ raw.b.set
      THEN [p EXCEPT !.end_a = SmoothPoint(p.end_a, raw.b),
                     !.end_b = SmoothPoint(p.end_b, raw.a),
                     !.detected = TRUE]
      ELSE MissedDetection(p)

\* update_pole_state; raw = result of detect_pole_endpoints
UpdatePoleState(p, raw) ==
    IF raw.a.set /\ raw.b.set
      THEN [p EXCEPT !.end_a = SmoothPoint(p.end_a, raw.a),
                     !.end_b = SmoothPoint(p.end_b, raw.b),
                     !.detected = TRUE]
      ELSE MissedDetection(p)

\* Mutant of ClampT: the projection is returned as computed
ClampT_NoClamp(t) == RNorm(t)

\* line 164: float(np.clip(t, 0.0, 1.0))
ClampT(t) == RNorm(RClip01(t))

\* Mutant of ProjDot: the cross product in place of the dot product
ProjDot_Cross(awx, awy, abx, aby) ==
    Rat(awx.n * aby * awy.d - awy.n * abx * awx.d, awx.d * awy.d)

\* line 160: np.dot(aw, ab); aw rational, ab integer
ProjDot(awx, awy, abx, aby) ==
    Rat(awx.n * abx * awy.d + awy.n * aby * awx.d, awx.d * awy.d)

\* compute_pole_position; wrist = [x, y] normalised rationals
ComputePolePosition(wrist, p, frame_w, frame_h) ==
    IF ~p.end_a.set \/ ~p.end_b.set THEN Rat(1, 2)
    ELSE LET abx == p.end_b.x - p.end_a.x
             aby == p.end_b.y - p.end_a.y
             ab_len_sq == abx * abx + aby * aby
             \* aw = (wrist.x * frame_w - ax, wrist.y * frame_h - ay)
             awx == Rat(wrist.x.n * frame_w - p.end_a.x * wrist.x.d, wrist.x.d)
             awy == Rat(wrist.y.n * frame_h - p.end_a.y * wrist.y.d, wrist.y.d)
             dot == ProjDot(awx, awy, abx, aby)
         IN  IF ab_len_sq = 0 THEN Rat(1, 2)
             ELSE ClampT(Rat(dot.n, dot.d * ab_len_sq))

\* detect_pole_endpoints: (None, None), or two centroids sorted left to right
NoDetection == [a |-> NoPoint, b |-> NoPoint]
Detections ==
    {NoDetection} \cup
    {[a |-> a, b |-> b] : a \in {Pt(0, 0), Pt(1, MaxPixY)},
                          b \in {Pt(1, MaxPixY), Pt(MaxPixX, 0), Pt(MaxPixX, MaxPixY)}}

\* the grip landmark of the fret hand (it may lie outside the frame), or no hand
NoHand == [present |-> FALSE, x |-> Rat(0, 1), y |-> Rat(0, 1)]
WristXs == {Rat(k, WristGrid) : k \in -1..(WristGrid + 1)}
WristYs == {Rat(0, 1), Rat(1, 2), Rat(1, 1)}
Hands == {NoHand} \cup {[present |-> TRUE, x |-> x, y |-> y] :
                          x \in WristXs, y \in {Rat(0, 1), Rat(1, 1)}}

\* PoleState()
PoleStateInit ==
    [end_a |-> NoPoint, end_b |-> NoPoint, detected |-> FALSE, position |-> Rat(1, 2)]

PoleInit ==
    /\ pole = PoleStateInit
    /\ pole_raw = NoDetection
    /\ pole_hand = NoHand

\* One frame of FrameProducer.run as far as the pole is concerned:
\* line 280 update_pole_state, lines 314-326 position of the fret hand
FrameResult(p, raw, hand) ==
    LET p1 == UpdatePoleState(p, raw)
    IN  IF hand.present
          THEN [p1 EXCEPT !.position = ComputePolePosition(hand, p1, FrameW, FrameH)]
          ELSE p1

PoleFrame(raw, hand) ==
    /\ pole' = FrameResult(pole, raw, hand)
    /\ pole_raw' = raw
    /\ pole_hand' = hand

\* the projection as a function: endpoints (sorted left to right, as the
\* detector and the smoothing leave them) and two reference points
ProjPoints == {Pt(x, y) : x \in 0..MaxPixX, y \in 0..MaxPixY}
ProjPoles ==
    {[PoleStateInit EXCEPT !.end_a = ab[1], !.end_b = ab[2], !.detected = TRUE] :
        ab \in {pq \in ProjPoints \X ProjPoints : pq[1].x <= pq[2].x}}
    \cup {PoleStateInit}
ProjWrists == {[present |-> TRUE, x |-> x, y |-> y] : x \in WristXs, y \in WristYs}
NoProj == [t1 |-> Rat(-1, 1), t2 |-> Rat(-1, 1)]

ProjInit ==
    /\ proj_in = [pole |-> PoleStateInit, p1 |-> NoHand, p2 |-> NoHand]
    /\ proj_out = NoProj

ProjInputs ==
    /\ proj_in \in [pole : ProjPoles, p1 : ProjWrists, p2 : ProjWrists]
    /\ proj_out = NoProj

\* compute_pole_position(P1), compute_pole_position(P2) on the same pole
ProjectBoth ==
    /\ proj_out = NoProj
    /\ proj_out' = [t1 |-> ComputePolePosition(proj_in.p1, proj_in.pole, FrameW, FrameH),
                    t2 |-> ComputePolePosition(proj_in.p2, proj_in.pole, FrameW, FrameH)]
    /\ UNCHANGED proj_in

-----------------------------------------------------------------------------
(* Strum handling -- vision/server.py handle_strum and its call site in   *)
(* FrameProducer.run; the phone handler of vision/websocket_server.py.    *)
(* handle_strum runs on the capture thread; each play_note and record     *)
(* call it makes is carried out in full inside the one action.            *)

\* Bound of the strum-handling model
MaxStrums == 2

\* PhoneTouch: id, y and the string index sent by the phone (-1 when the
\* message carries none); x is never read by the handler
Touch(id, y, string) == [id |-> id, y |-> y, string |-> string]

\* touch lists sent by the phone: none, one string, the same string twice
\* (the greater y last, then first), two strings out of order, an unassigned
\* touch, an index past the table
PhoneMessages ==
    {<< >>,
     <<Touch(1, Rat(1, 2), 2)>>,
     <<Touch(1, Rat(1, 2), 2), Touch(2, Rat(3, 4), 2)>>,
     <<Touch(1, Rat(3, 4), 2), Touch(2, Rat(1, 2), 2)>>,
     <<Touch(1, Rat(3, 4), 4), Touch(2, Rat(1, 4), 1)>>,
     <<Touch(1, Rat(1, 2), -1)>>,
     <<Touch(1, Rat(1, 4), 6)>>}

\* velocities of strum events: |diff| above the threshold, in 1/1000
StrumVelocities == {STRUM_VELOCITY_THRESHOLD + 1, 200}

\* connections the phone server may hold at once (websockets serves every
\* client that connects, each with its own handler coroutine)
PhoneConns == {1, 2}

\* accelerometer / gyroscope payload of a message, as one token
Motions == {0, 1}

\* PhoneState()
PhoneInit == [connected |-> FALSE, touches |-> << >>, motion |-> 0, last_update |-> 0]

NoPhoneEvent == [kind |-> "none", conn |-> 0]
PhoneEvent(kind, c) == [kind |-> kind, conn |-> c]

NotHandled == [valid |-> FALSE, touches |-> << >>, pole_pos |-> Rat(0, 1),
               velocity |-> 0, calls |-> << >>, log_before |-> 0,
               recording |-> FALSE, recorded |-> << >>, at |-> 0, started |-> 0]

HandleInit ==
    /\ phone = PhoneInit
    /\ conns = [c \in PhoneConns |-> "closed"]
    /\ phone_ev = NoPhoneEvent
    /\ last_notes = [notes |-> << >>, time |-> 0]
    /\ handled = NotHandled
    /\ strums = 0

\* websocket handler, lines 28-29: a connection is accepted
PhoneConnect(c) ==
    /\ conns[c] = "closed"
    /\ conns' = [conns EXCEPT ![c] = "open"]
    /\ phone' = [phone EXCEPT !.connected = TRUE]
    /\ phone_ev' = PhoneEvent("connect", c)
    /\ UNCHANGED <<last_notes, handled, strums>>

\* websocket handler, lines 38-59: a well-formed message replaces the touch
\* list and the motion values and stamps last_update
PhoneMessage(c, touches, motion) ==
    /\ conns[c] = "open"
    /\ phone' = [phone EXCEPT !.touches = touches, !.motion = motion,
                              !.last_update = now]
    /\ phone_ev' = PhoneEvent("message", c)
    /\ UNCHANGED <<conns, last_notes, handled, strums>>

\* lines 33-36: json.loads raises JSONDecodeError; the loop continues
PhoneBadJson(c) ==
    /\ conns[c] = "open"
    /\ phone_ev' = PhoneEvent("bad_json", c)
    /\ UNCHANGED <<phone, conns, last_notes, handled, strums>>

\* Mutant of PhoneReset: the touches survive the end of the connection
PhoneReset_KeepsTouches(p) == [p EXCEPT !.connected = FALSE]

\* lines 62-66, the finally clause
PhoneReset(p) == [p EXCEPT !.connected = FALSE, !.touches = << >>]

\* lines 38-48 on valid JSON without the expected fields: t["id"], t["x"] or
\* t["y"] raises KeyError, data.get on a non-object raises AttributeError.
\* Neither is caught at line 60; the finally clause runs and the handler
\* ends with the exception, which closes the connection.
PhoneBadFields(c) ==
    /\ conns[c] = "open"
    /\ phone' = PhoneReset(phone)
    /\ conns' = [conns EXCEPT ![c] = "closed"]
    /\ phone_ev' = PhoneEvent("bad_fields", c)
    /\ UNCHANGED <<last_notes, handled, strums>>

\* lines 60-66: the socket closes (ConnectionClosed or the end of the
\* iteration), the finally clause runs
PhoneDisconnect(c) ==
    /\ conns[c] = "open"
    /\ phone' = PhoneReset(phone)
    /\ conns' = [conns EXCEPT ![c] = "closed"]
    /\ phone_ev' = PhoneEvent("disconnect", c)
    /\ UNCHANGED <<last_notes, handled, strums>>

\* lines 156-159: the loop over phone.touches building the dict `fretted`
RECURSIVE FrettedLoop(_, _, _)
FrettedLoop(touches, i, fretted) ==
    IF i > Len(touches) THEN fretted
    ELSE LET touch == touches[i]
             keep == touch.string \in DOMAIN fretted
                     /\ ~RLt(fretted[touch.string], touch.y)
         IN  FrettedLoop(touches, i + 1,
                 IF keep THEN fretted
                 ELSE [k \in (DOMAIN fretted) \cup {touch.string} |->
                          IF k = touch.string THEN touch.y ELSE fretted[k]])

\* Mutant of Fretted: the touch listed last on a string wins
Fretted_LastWins(touches) ==
    [s \in {touches[i].string : i \in DOMAIN touches} |->
        touches[CHOOSE i \in DOMAIN touches :
                    /\ touches[i].string = s
                    /\ \A j \in DOMAIN touches : touches[j].string = s => j <= i].y]

\* lines 156-159: the dict `fretted` after the loop
Fretted(touches) == FrettedLoop(touches, 1, << >>)

\* sorted(keys)
RECURSIVE Sorted(_)
Sorted(S) ==
    IF S = {} THEN << >>
    ELSE LET m == CHOOSE x \in S : \A y \in S : x <= y
         IN  <<m>> \o Sorted(S \ {m})

\* lines 162-167
StringsToPlay(num, fretted) ==
    IF DOMAIN fretted # {} THEN Sorted(DOMAIN fretted)
    ELSE [i \in 1..num |-> i - 1]

NoteCall(s, open, fret_y, pole_position, result) ==
    [string |-> s, open |-> open, fret_y |-> fret_y,
     pole_position |-> pole_position, result |-> result]

\* lines 173-178: the call for a fretted string
FrettedCall(num, s, fret_y, pole_pos, strum_velocity) ==
    NoteCall(s, FALSE, fret_y, pole_pos,
             ComputeNote(num, s, fret_y, pole_pos, strum_velocity))

\* Mutant of OpenCall: the open string is shifted by the pole position
OpenCall_UsesPole(num, s, pole_pos, strum_velocity) ==
    NoteCall(s, TRUE, Rat(0, 1), pole_pos,
             ComputeNote(num, s, Rat(0, 1), pole_pos, strum_velocity))

\* lines 181-186: the call for an open string
OpenCall(num, s, pole_pos, strum_velocity) ==
    NoteCall(s, TRUE, Rat(0, 1), Rat(0, 1),
             ComputeNote(num, s, Rat(0, 1), Rat(0, 1), strum_velocity))

\* lines 170-188: the compute_note call made for each string, in order
NoteCalls(num, touches, pole_pos, strum_velocity) ==
    LET fretted == Fretted(touches)
        strings_to_play == StringsToPlay(num, fretted)
    IN  [i \in 1..Len(strings_to_play) |->
            LET s == strings_to_play[i]
            IN  IF s \in DOMAIN fretted
                  THEN FrettedCall(num, s, fretted[s], pole_pos, strum_velocity)
                  ELSE OpenCall(num, s, pole_pos, strum_velocity)]

\* AudioEngine.play_note run to completion on the audio state
\* au = [note_gen, timers, active_timers, synth_log]
PlayNoteDone(au, midi_note, velocity) ==
    IF ~Ready THEN au
    ELSE LET n == Clip(midi_note, 0, 127)
             v == Clip(velocity, 0, 127)
             gen == (IF n \in DOMAIN au.note_gen THEN au.note_gen[n] ELSE 0) + 1
         IN  [note_gen |-> [k \in (DOMAIN au.note_gen) \cup {n} |->
                               IF k = n THEN gen ELSE au.note_gen[k]],
              synth_log |-> Append(au.synth_log, SynthCall("noteon", {n}, v, "play", 0)),
              timers |-> Append(au.timers,
                            [note |-> n, gen |-> gen, onAt |-> Len(au.synth_log) + 1,
                             startLen |-> Len(au.synth_log) + 1,
                             st |-> "waiting", firedAt |-> 0, sent |-> FALSE]),
              active_timers |-> Append(au.active_timers, Len(au.timers) + 1)]

\* line 187 for each call in turn
RECURSIVE PlayAll(_, _, _)
PlayAll(au, calls, i) ==
    IF i > Len(calls) THEN au
    ELSE PlayAll(PlayNoteDone(au, calls[i].result.midi_note, calls[i].result.velocity),
                 calls, i + 1)

\* line 188 for each call in turn
RECURSIVE RecordAll(_, _, _, _)
RecordAll(rec, t, calls, i) ==
    IF i > Len(calls) THEN rec
    ELSE RecordAll(Record(rec, t, calls[i].result), t, calls, i + 1)

\* lines 189-194: the label shown for a note
NoteLabel(c) ==
    [name |-> c.result.name, str |-> c.string, vel |-> c.result.velocity,
     dur |-> c.result.duration, open |-> c.open]

\* FrameProducer.run lines 350-365 on a down-strum: snapshot of the touches
\* under the phone lock, then handle_strum
HandleStrumAt(strum_velocity, pole_pos) ==
    /\ strums < MaxStrums
    /\ strum_velocity > STRUM_VELOCITY_THRESHOLD
    /\ strums' = strums + 1
    /\ LET snap == phone.touches
           calls == NoteCalls(num_strings, snap, pole_pos, strum_velocity)
           au == PlayAll([note_gen |-> note_gen, timers |-> timers,
                          active_timers |-> active_timers, synth_log |-> synth_log],
                         calls, 1)
           rec == RecordAll(recorder, now, calls, 1)
       IN  /\ note_gen' = au.note_gen
           /\ timers' = au.timers
           /\ active_timers' = au.active_timers
           /\ synth_log' = au.synth_log
           /\ recorder' = rec
           /\ rec_calls' = IF rec_open
                             THEN rec_calls \o [i \in 1..Len(calls) |->
                                                  [note |-> calls[i].result, at |-> now,
                                                   id |-> 0]]
                             ELSE rec_calls
           /\ rec_trace' = [rec_trace EXCEPT
                               !.ids = IdsAfter(@, recorder.events, rec.events,
                                                [i \in 1..Len(calls) |-> 0])]
           /\ rec_ret' = ReturnedAfter(rec)
           /\ last_notes' = [notes |-> [i \in 1..Len(calls) |-> NoteLabel(calls[i])],
                             time |-> now]
           /\ handled' = [valid |-> TRUE, touches |-> snap, pole_pos |-> pole_pos,
                          velocity |-> strum_velocity, calls |-> calls,
                          log_before |-> Len(synth_log),
                          recording |-> recorder.recording,
                          recorded |-> SubSeq(rec.events, Len(recorder.events) + 1,
                                              Len(rec.events)),
                          at |-> now, started |-> recorder.start_time]
    /\ UNCHANGED <<synth, pc, local, plays, stops, now, rec_alias, rec_open,
                   rec_closed, rec_count, phone, phoneVars>>

\* handle_strum called with a pole that the tick has not changed
HandleStrum(strum_velocity) ==
    HandleStrumAt(strum_velocity, pole.position) /\ UNCHANGED poleVars

\* pole states the handler may find: never detected, or after a first frame
\* that saw a level pole and a grip point before, on, or beyond the segment
HandleFrames ==
    {[raw |-> NoDetection, hand |-> NoHand]} \cup
    {[raw |-> [a |-> Pt(0, 0), b |-> Pt(MaxPixX, 0)],
      hand |-> [present |-> TRUE, x |-> x, y |-> Rat(0, 1)]] :
        x \in {Rat(-1, 4), Rat(1, 4), Rat(1, 1)}}

HandlePoleInit ==
    \E f \in HandleFrames :
        /\ pole = FrameResult(PoleStateInit, f.raw, f.hand)
        /\ pole_raw = f.raw
        /\ pole_hand = f.hand

-----------------------------------------------------------------------------
(* Browser bridge -- vision/server.py browser_ws_handler.  One connection: *)
(* the handler coroutine, its send_frames and receive_commands tasks, the  *)
(* socket.  A command is handled while the socket is open; a socket that   *)
(* has closed ends the command loop and fails the next frame send.         *)

\* Bounds of the bridge model
MaxCmds == 2
MaxFrames == 1

\* config.py
INSTRUMENT_PROGRAM == 27

\* server.py lines 79-88 (two of the entries)
INSTRUMENT_PROGRAM_MAP == [id \in {"guitar", "violin"} |->
                              IF id = "guitar" THEN 25 ELSE 40]

NoProgram == -1          \* None

\* the gmProgram field: absent, a string int() accepts, one it rejects
NoGm == [given |-> FALSE, ok |-> FALSE, value |-> 0]
GmInt(n) == [given |-> TRUE, ok |-> TRUE, value |-> n]
GmBad == [given |-> TRUE, ok |-> FALSE, value |-> 0]

Cmd(action, instrumentId, gmProgram) ==
    [action |-> action, instrumentId |-> instrumentId, gmProgram |-> gmProgram]

\* messages from the browser: text that is not JSON, JSON that is not an
\* object, an unknown action, and the three commands
Commands ==
    {Cmd("bad_json", "", NoGm), Cmd("not_object", "", NoGm), Cmd("other", "", NoGm),
     Cmd("start", "", NoGm), Cmd("stop", "", NoGm),
     Cmd("set_instrument", "violin", NoGm),
     Cmd("set_instrument", "kazoo", GmInt(73)),
     Cmd("set_instrument", "kazoo", GmBad),
     Cmd("set_instrument", "kazoo", NoGm)}

\* lines 479-489: the program a set_instrument command names, or None
ResolveProgram(cmd) ==
    IF cmd.instrumentId \in DOMAIN INSTRUMENT_PROGRAM_MAP
      THEN INSTRUMENT_PROGRAM_MAP[cmd.instrumentId]
    ELSE IF cmd.gmProgram.given /\ cmd.gmProgram.ok THEN cmd.gmProgram.value
    ELSE NoProgram

\* JSON messages sent to the browser
StatusMsg(recording, message) ==
    [type |-> "status", recording |-> recording, message |-> message,
     events |-> << >>, total |-> 0]
MidiMsg(events, total) ==
    [type |-> "midi", recording |-> FALSE, message |-> "",
     events |-> events, total |-> total]

\* Mutant of StopReplies: the status message is sent before the events
StopReplies_StatusFirst(events) ==
    <<StatusMsg(FALSE, "stopped"), MidiMsg(events, Len(events))>>

\* lines 515-526: the two messages that answer a stop command
StopReplies(events) ==
    <<MidiMsg(events, Len(events)), StatusMsg(FALSE, "stopped")>>

\* What one message leads to inside receive_commands: the replies sent,
\* whether an exception leaves the loop, and the recorder method called.
\* producer.audio.set_program is no attribute of AudioEngine: the call at
\* line 490 raises AttributeError before anything is sent.
CommandOutcome(cmd) ==
    CASE cmd.action = "bad_json" ->
           [replies |-> << >>, raised |-> FALSE, rec |-> "none"]
      [] cmd.action = "not_object" ->
           [replies |-> << >>, raised |-> TRUE, rec |-> "none"]
      [] cmd.action = "set_instrument" ->
           IF ResolveProgram(cmd) # NoProgram
             THEN [replies |-> << >>, raised |-> TRUE, rec |-> "none"]
             ELSE [replies |-> <<StatusMsg(recorder.recording, "default")>>,
                   raised |-> FALSE, rec |-> "none"]
      [] cmd.action = "start" ->
           [replies |-> <<StatusMsg(TRUE, "started")>>, raised |-> FALSE,
            rec |-> "start"]
      [] cmd.action = "stop" ->
           [replies |-> StopReplies(recorder.events), raised |-> FALSE,
            rec |-> "stop"]
      [] OTHER ->
           [replies |-> << >>, raised |-> FALSE, rec |-> "none"]

NoBridge == [socket |-> "none", handler |-> "none", send |-> "none", recv |-> "none",
             stop_event |-> FALSE, out |-> << >>, frames |-> 0]

NoCmd == [valid |-> FALSE, cmd |-> Cmd("none", "", NoGm), replies |-> << >>,
          recv_after |-> "none", recording_after |-> FALSE]

BridgeInit ==
    /\ bridge = NoBridge
    /\ program = INSTRUMENT_PROGRAM
    /\ last_cmd = NoCmd
    /\ cmds = 0

\* lines 438-445 and 531-533: the initial status is sent and both tasks are
\* created; the handler waits for the first of them to complete
BridgeConnect ==
    /\ bridge.socket = "none"
    /\ bridge' = [bridge EXCEPT !.socket = "open", !.handler = "waiting",
                                !.send = "running", !.recv = "running",
                                !.out = <<StatusMsg(recorder.recording, "connected")>>]
    /\ UNCHANGED <<program, last_cmd, cmds>>

\* the browser closes the socket, or the network drops it
BrowserClose ==
    /\ bridge.socket = "open"
    /\ bridge' = [bridge EXCEPT !.socket = "closed"]
    /\ UNCHANGED <<program, last_cmd, cmds>>

\* send_frames, lines 452-463: a new frame is sent; a send on a closed socket
\* raises and the loop breaks
SendFrame ==
    /\ bridge.send = "running"
    /\ ~bridge.stop_event
    /\ bridge.frames < MaxFrames
    /\ bridge' = IF bridge.socket = "open"
                   THEN [bridge EXCEPT !.frames = bridge.frames + 1]
                   ELSE [bridge EXCEPT !.send = "done"]
    /\ UNCHANGED <<program, last_cmd, cmds>>

\* send_frames, line 453: the loop condition finds stop_event set
SendSeesStop ==
    /\ bridge.send = "running"
    /\ bridge.stop_event
    /\ bridge' = [bridge EXCEPT !.send = "done"]
    /\ UNCHANGED <<program, last_cmd, cmds>>

\* receive_commands, lines 469-526: one message from the browser
RecvCommand(cmd) ==
    /\ bridge.recv = "running"
    /\ bridge.socket = "open"
    /\ cmds < MaxCmds
    /\ cmds' = cmds + 1
    /\ LET o == CommandOutcome(cmd)
           recv_after == IF o.raised THEN "done" ELSE "running"
       IN  /\ bridge' = [bridge EXCEPT !.out = bridge.out \o o.replies,
                                       !.recv = recv_after,
                                       !.stop_event = bridge.stop_event \/ o.raised]
           /\ CASE o.rec = "start" -> RecorderStart
                [] o.rec = "stop" -> RecorderStop
                [] OTHER -> UNCHANGED recVars
           /\ last_cmd' = [valid |-> TRUE, cmd |-> cmd, replies |-> o.replies,
                           recv_after |-> recv_after,
                           recording_after |-> recorder'.recording]
    /\ UNCHANGED program

\* receive_commands, lines 527-530: the iteration over a closed socket ends
\* (or raises ConnectionClosed); finally sets stop_event
RecvEnd ==
    /\ bridge.recv = "running"
    /\ bridge.socket = "closed"
    /\ bridge' = [bridge EXCEPT !.recv = "done", !.stop_event = TRUE]
    /\ UNCHANGED <<program, last_cmd, cmds>>

\* Mutant of WaitReturns: the handler waits for both tasks
WaitReturns_AllCompleted(b) == b.send = "done" /\ b.recv = "done"

\* lines 534-536: asyncio.wait(..., return_when=FIRST_COMPLETED)
WaitReturns(b) == b.send = "done" \/ b.recv = "done"

\* task.cancel() on a pending task
CancelPending(st) == IF st = "running" THEN "cancelled" ELSE st

\* lines 534-540: the wait returns, the pending task is cancelled (a cancelled
\* receive_commands runs its finally clause), the handler returns and the
\* server closes the connection
HandlerWake ==
    /\ bridge.handler = "waiting"
    /\ WaitReturns(bridge)
    /\ bridge' = [bridge EXCEPT !.handler = "returned",
                                !.send = CancelPending(bridge.send),
                                !.recv = CancelPending(bridge.recv),
                                !.stop_event = TRUE,
                                !.socket = "closed"]
    /\ UNCHANGED <<program, last_cmd, cmds>>

-----------------------------------------------------------------------------
(* The phone lock -- vision/server.py FrameProducer.run lines 350-382 and  *)
(* the with blocks of the handler in vision/websocket_server.py.  Each     *)
(* field read or written inside a with block is a step of its own, so that *)
(* the two threads interleave wherever the lock lets them.  The handler    *)
(* coroutines share one event-loop thread and no with block awaits: the    *)
(* network side is one thread.                                             *)

\* touch lists of the messages in this component
LockMessages == {<<Touch(1, Rat(1, 2), 2)>>,
                 <<Touch(1, Rat(3, 4), 4), Touch(2, Rat(1, 4), 1)>>}

\* Mutant of CanAcquire: the with block is entered whoever holds the lock
CanAcquire_Unlocked(holder) == TRUE

\* threading.Lock: __enter__ returns once no thread holds the lock
CanAcquire(holder) == holder = "free"

\* one assignment to a field of the shared PhoneState
FieldWrite(field, value) == [field |-> field, value |-> value]

\* the assignments of each with block of the handler, in source order
ConnectWrites == <<FieldWrite("connected", TRUE)>>
MessageWrites(touches, motion) ==
    <<FieldWrite("touches", touches), FieldWrite("motion", motion),
      FieldWrite("last_update", now)>>
DisconnectWrites == <<FieldWrite("connected", FALSE), FieldWrite("touches", << >>)>>

\* the keyword arguments of the two PhoneState(...) copies, in source order
StrumSnapFields == <<"connected", "touches">>
PanelSnapFields == <<"connected", "touches", "motion", "last_update">>

LockInit ==
    /\ plock = "free"
    /\ net = [inside |-> FALSE, writes |-> << >>]
    /\ main_pc = "top"
    /\ phone_snap = PhoneInit
    /\ snap_todo = << >>
    /\ snap_at = [state |-> PhoneInit, writing |-> FALSE]


\* the handler enters one of its with blocks
NetEnter(writes) ==
    /\ ~net.inside
    /\ CanAcquire(plock)
    /\ plock' = "net"
    /\ net' = [inside |-> TRUE, writes |-> writes]
    /\ UNCHANGED <<phone, main_pc, phone_snap, snap_todo, snap_at>>

\* lines 28-29
NetConnect == conns[1] = "closed" /\ NetEnter(ConnectWrites)
                 /\ conns' = [conns EXCEPT ![1] = "open"]

\* lines 51-59
NetMessage(touches, motion) ==
    conns[1] = "open" /\ NetEnter(MessageWrites(touches, motion))
        /\ UNCHANGED conns

\* lines 64-66
NetDisconnect == conns[1] = "open" /\ NetEnter(DisconnectWrites)
                    /\ conns' = [conns EXCEPT ![1] = "closed"]

\* the next assignment inside the with block
NetWrite ==
    /\ net.inside
    /\ net.writes # << >>
    /\ phone' = [phone EXCEPT ![Head(net.writes).field] = Head(net.writes).value]
    /\ net' = [net EXCEPT !.writes = Tail(net.writes)]
    /\ UNCHANGED <<plock, conns, main_pc, phone_snap, snap_todo, snap_at>>

\* the with block ends
NetLeave ==
    /\ net.inside
    /\ net.writes = << >>
    /\ plock' = "free"
    /\ net' = [net EXCEPT !.inside = FALSE]
    /\ UNCHANGED <<phone, conns, main_pc, phone_snap, snap_todo, snap_at>>

\* lines 276-349: one tick up to the strum decision; `down` is whether
\* detect_strum returned a down strum
LoopTick(down) ==
    /\ main_pc = "top"
    /\ main_pc' = IF down THEN "strum_lock" ELSE "panel_lock"
    /\ UNCHANGED <<phone, conns, plock, net, phone_snap, snap_todo, snap_at>>

\* lines 352 and 373: with self.phone_lock
SnapEnter ==
    /\ main_pc \in {"strum_lock", "panel_lock"}
    /\ CanAcquire(plock)
    /\ plock' = "main"
    /\ main_pc' = IF main_pc = "strum_lock" THEN "strum_copy" ELSE "panel_copy"
    /\ snap_todo' = IF main_pc = "strum_lock" THEN StrumSnapFields
                    ELSE PanelSnapFields
    /\ phone_snap' = PhoneInit
    /\ snap_at' = [state |-> phone, writing |-> net.inside]
    /\ UNCHANGED <<phone, conns, net>>

\* lines 353-356 and 374-381: one keyword argument is evaluated
SnapCopy ==
    /\ main_pc \in {"strum_copy", "panel_copy"}
    /\ snap_todo # << >>
    /\ phone_snap' = [phone_snap EXCEPT ![Head(snap_todo)] = phone[Head(snap_todo)]]
    /\ snap_todo' = Tail(snap_todo)
    /\ UNCHANGED <<phone, conns, plock, net, main_pc, snap_at>>

\* the with block ends; handle_strum or draw_phone_panel is next
SnapLeave ==
    /\ main_pc \in {"strum_copy", "panel_copy"}
    /\ snap_todo = << >>
    /\ plock' = "free"
    /\ main_pc' = IF main_pc = "strum_copy" THEN "handle_strum"
                  ELSE "draw_phone_panel"
    /\ UNCHANGED <<phone, conns, net, phone_snap, snap_todo, snap_at>>

\* lines 357-371 and 382-415: the work done with the snapshot (the notes of
\* handle_strum are the subject of HandleStrum; here only its place in the
\* tick matters)
UseSnapshot ==
    /\ main_pc \in {"handle_strum", "draw_phone_panel"}
    /\ main_pc' = IF main_pc = "handle_strum" THEN "panel_lock" ELSE "top"
    /\ UNCHANGED <<phone, conns, plock, net, phone_snap, snap_todo, snap_at>>

-----------------------------------------------------------------------------
(* Inference result slot -- vision/server.py FrameProducer._on_result and  *)
(* lines 286-293 of run.  A result is named by the number of the frame it  *)
(* is of.  The landmarker calls the callback on its own thread, for frames *)
(* in the order they were submitted; it may skip frames.                   *)

\* Bound: frames submitted
MaxTicks == 4

NoResult == 0            \* None

\* Mutant of SlotWrite: a result still in the slot is not replaced
SlotWrite_KeepFirst(slot, result) == IF slot = NoResult THEN result ELSE slot

\* line 234: self._latest_result = result
SlotWrite(slot, result) == result

SlotInit ==
    /\ latest_result = NoResult
    /\ submitted = 0
    /\ last_cb = NoResult
    /\ tick_pc = "submit"
    /\ tick_reads = << >>

\* lines 276-290: a frame is captured and handed to detect_async
TickSubmit ==
    /\ tick_pc = "submit"
    /\ submitted < MaxTicks
    /\ submitted' = submitted + 1
    /\ tick_pc' = "read"
    /\ UNCHANGED <<latest_result, last_cb, tick_reads>>

\* lines 292-293: result = self._latest_result under the result lock; the
\* rest of the tick works with `result`
TickRead ==
    /\ tick_pc = "read"
    /\ tick_reads' = Append(tick_reads, latest_result)
    /\ tick_pc' = "submit"
    /\ UNCHANGED <<latest_result, submitted, last_cb>>

\* _on_result, lines 232-234, for the result of frame k
OnResult(k) ==
    /\ last_cb < k
    /\ k <= submitted
    /\ latest_result' = SlotWrite(latest_result, k)
    /\ last_cb' = k
    /\ UNCHANGED <<submitted, tick_pc, tick_reads>>


-----------------------------------------------------------------------------
(* Outbound video frames -- vision/server.py lines 409-415 of run and      *)
(* send_frames.  A frame is named by its number; every tick that publishes *)
(* makes a new bytes object, so `is not` compares frame numbers.  This is  *)
(* the loop that SendFrame of the bridge shows from the handler's side.    *)

\* Bound: frames published
MaxJpegs == 4

NoJpeg == 0              \* None

\* Mutant of SendWanted: a frame is sent whether or not it was the last sent
SendWanted_Always(jpeg, last_jpeg) == jpeg # NoJpeg

\* line 457: jpeg is not None and jpeg is not last_jpeg
SendWanted(jpeg, last_jpeg) == jpeg # NoJpeg /\ jpeg # last_jpeg

StreamInit ==
    /\ latest_jpeg = NoJpeg
    /\ made = 0
    /\ stream = [pc |-> "read", jpeg |-> NoJpeg, last_jpeg |-> NoJpeg,
                 sent |-> << >>, seen |-> 0, socket |-> "open",
                 stop_event |-> FALSE]

\* run, lines 409-415: the tick's frame is encoded and published
PublishFrame ==
    /\ made < MaxJpegs
    /\ made' = made + 1
    /\ latest_jpeg' = made + 1
    /\ UNCHANGED stream

\* send_frames, lines 453-457: the loop condition, the read under the frame
\* lock and the test; `seen` keeps the number of frames published by then
StreamRead ==
    /\ stream.pc = "read"
    /\ ~stream.stop_event
    /\ stream' = [stream EXCEPT
                    !.jpeg = latest_jpeg,
                    !.seen = made,
                    !.pc = IF SendWanted(latest_jpeg, stream.last_jpeg)
                             THEN "send" ELSE "sleep"]
    /\ UNCHANGED <<latest_jpeg, made>>

\* line 453: stop_event is set, the loop ends
StreamSeesStop ==
    /\ stream.pc = "read"
    /\ stream.stop_event
    /\ stream' = [stream EXCEPT !.pc = "done"]
    /\ UNCHANGED <<latest_jpeg, made>>

\* lines 458-462: the send completes and last_jpeg follows, or the send
\* raises on a closed socket and the loop breaks
StreamSend ==
    /\ stream.pc = "send"
    /\ stream' = IF stream.socket = "open"
                   THEN [stream EXCEPT !.sent = Append(stream.sent, stream.jpeg),
                                       !.last_jpeg = stream.jpeg,
                                       !.pc = "sleep"]
                   ELSE [stream EXCEPT !.pc = "done"]
    /\ UNCHANGED <<latest_jpeg, made>>

\* line 464: the sleep ends
StreamSleep ==
    /\ stream.pc = "sleep"
    /\ stream' = [stream EXCEPT !.pc = "read"]
    /\ UNCHANGED <<latest_jpeg, made>>

\* the browser closes the socket
StreamClose ==
    /\ stream.socket = "open"
    /\ stream' = [stream EXCEPT !.socket = "closed"]
    /\ UNCHANGED <<latest_jpeg, made>>

\* receive_commands ends (line 530) and the handler cancels the frame task,
\* which is waiting in its send or in its sleep (lines 537-538)
StreamStop ==
    /\ ~stream.stop_event
    /\ stream' = [stream EXCEPT !.stop_event = TRUE,
                                !.pc = IF stream.pc \in {"send", "sleep"}
                                         THEN "done" ELSE stream.pc]
    /\ UNCHANGED <<latest_jpeg, made>>


-----------------------------------------------------------------------------
(* Startup -- vision/server.py main and the first lines of                 *)
(* FrameProducer.run.  main starts the phone server thread and the         *)
(* producer thread, sleeps, then serves the browser on its own thread.     *)

\* the machine at startup: whether the model file exists and whether the
\* camera opens are inputs; the same choice is what a running session had
BootInit ==
    \E m \in BOOLEAN, c \in BOOLEAN :
        boot = [model_file |-> m, camera |-> c, main |-> "start",
                producer |-> "off", phone_srv |-> "off"]

\* a session whose startup went through (every other component takes it so)
Booted == [model_file |-> TRUE, camera |-> TRUE, main |-> "serving",
           producer |-> "looping", phone_srv |-> "listening"]

\* main, lines 571-574: the phone server thread is started
StartPhoneThread ==
    /\ boot.main = "start"
    /\ boot' = [boot EXCEPT !.main = "phone_started", !.phone_srv = "starting"]

\* start_ws_server, lines 68-77: the phone server listens
PhoneListen ==
    /\ boot.phone_srv = "starting"
    /\ boot' = [boot EXCEPT !.phone_srv = "listening"]

\* main, lines 577-579: the producer thread is started
StartProducerThread ==
    /\ boot.main = "phone_started"
    /\ boot' = [boot EXCEPT !.main = "producer_started", !.producer = "started"]

\* run, lines 237-239: without the model file run() returns
ProducerCheckModel ==
    /\ boot.producer = "started"
    /\ boot' = [boot EXCEPT !.producer = IF boot.model_file THEN "open_camera"
                                         ELSE "returned"]

\* run, lines 251-258: without a camera run() returns, else self.running is
\* set and the loop is entered
ProducerOpenCamera ==
    /\ boot.producer = "open_camera"
    /\ boot' = [boot EXCEPT !.producer = IF boot.camera THEN "looping"
                                         ELSE "returned"]

\* main, lines 582-592: after the sleep, whatever the producer thread did,
\* asyncio.run(run_browser_ws(...)) serves the browser until interrupted
ServeBrowser ==
    /\ boot.main = "producer_started"
    /\ boot' = [boot EXCEPT !.main = "serving"]

-----------------------------------------------------------------------------
(* Strum dispatch -- vision/server.py FrameProducer.run lines 337-365: the *)
(* part of a tick from detect_strum to handle_strum.                       *)

\* distances of the ticks: a fast move one way is a down strum, back an up strum
TickDists == {-5, 4}

\* the touch lists the phone sends meanwhile: two strings, and an
\* unassigned touch beside one touch on each of the six strings
TickMessages ==
    {<<Touch(1, Rat(3, 4), 4), Touch(2, Rat(1, 4), 1)>>,
     [i \in 1..7 |-> Touch(i, Rat(1, 2), i - 2)]}

\* Mutant of IsDownStrum: any strum event triggers the notes
IsDownStrum_AnyEvent(ev) == ev # NoEvent

\* line 350: strum_event is not None and strum_event.direction == "down"
IsDownStrum(ev) == ev # NoEvent /\ ev.direction = "down"

\* lines 348-365 of a tick in which both hands are seen: detect_strum, then
\* handle_strum with a snapshot of the touches if the event is a down strum
StrumTick(perp_dist) ==
    /\ DetectStrumCall(perp_dist)
    /\ IF IsDownStrum(DetectStrum(fretboard, perp_dist).ev)
         THEN HandleStrum(DetectStrum(fretboard, perp_dist).ev.velocity)
         ELSE UNCHANGED <<audioVars, recVars, handleVars, poleVars, phoneVars>>
    /\ UNCHANGED <<startVars, noteVars, projVars, bridgeVars, runVars, handsVars>>

-----------------------------------------------------------------------------
(* Hands of one tick -- src/hand_tracking.py identify_hands, smooth_vec3,  *)
(* signed_perp_distance_3d, and lines 291-365 of FrameProducer.run.        *)
(* A detected hand is named by its index in the result.  Landmarks are     *)
(* points with rational coordinates at depth 0; both wrists are seen at    *)
(* the same height, so the neck line is level and the length of the line   *)
(* vector is the absolute value of its x component.                        *)

\* Bound of the tick model: ticks run
MaxHandTicks == 3

\* server.py line 244: HandLandmarkerOptions(num_hands=2)
NUM_HANDS == 2

\* config.py
SWAP_HANDS == TRUE
SMOOTH_ALPHA == Rat(6, 10)

RAdd(a, b) == RNorm(Rat(a.n * b.d + b.n * a.d, a.d * b.d))
RSub(a, b) == RNorm(Rat(a.n * b.d - b.n * a.d, a.d * b.d))
RMul(a, b) == RNorm(Rat(a.n * b.n, a.d * b.d))

NoVec == [set |-> FALSE, x |-> Rat(0, 1), y |-> Rat(0, 1)]       \* None
Vec(x, y) == [set |-> TRUE, x |-> RNorm(x), y |-> RNorm(y)]       \* Vec3(x, y, 0)

\* smooth_vec3
SmoothVec3(old, new, alpha) ==
    IF ~old.set THEN new
    ELSE LET rest == RSub(Rat(1, 1), alpha)
         IN  Vec(RAdd(RMul(old.x, alpha), RMul(new.x, rest)),
                 RAdd(RMul(old.y, alpha), RMul(new.y, rest)))

\* a rational number of thousandths as the integer the strum detector takes
\* (the distances of the model are whole thousandths)
Thousandths(r) == (r.n * 1000) \div r.d

\* signed_perp_distance_3d for points at depth 0 and a level line: the
\* cross product has the one component d.x * v.y - d.y * v.x, and the
\* length of d is |d.x|
SignedPerpDistance(point, line_start, line_end) ==
    LET dx == RSub(line_end.x, line_start.x)
        vy == RSub(point.y, line_start.y)
        dist == Abs(Thousandths(vy))
        sign == dx.n * vy.n
    IN  IF dx.n = 0 THEN 0
        ELSE IF sign >= 0 THEN dist ELSE -dist

\* a detected hand: MediaPipe's label and the three landmarks the tick reads
Hand(label, wrist, tip, grip) ==
    [label |-> label, wrist |-> wrist, tip |-> tip, grip |-> grip]

\* Mutant of RoleLabel: the flag is not looked at
RoleLabel_NoSwap(swap, label) == label

\* lines 125-127
RoleLabel(swap, label) ==
    IF swap THEN (IF label = "Left" THEN "Right" ELSE "Left") ELSE label

\* lines 121-133, the loop from hand i on; 0 is None
RECURSIVE IdentifyLoop(_, _, _, _, _)
IdentifyLoop(swap, hands, i, left_lm, right_lm) ==
    IF i > Len(hands) THEN [fret |-> left_lm, strum |-> right_lm]
    ELSE LET label == RoleLabel(swap, hands[i].label)
         IN  IF label = "Left" THEN IdentifyLoop(swap, hands, i + 1, i, right_lm)
             ELSE IF label = "Right" THEN IdentifyLoop(swap, hands, i + 1, left_lm, i)
             ELSE IdentifyLoop(swap, hands, i + 1, left_lm, right_lm)

IdentifyHands(swap, hands) == IdentifyLoop(swap, hands, 1, 0, 0)

NoRoles == [fret |-> 0, strum |-> 0]

\* the slot's content: None, or a result with its hands
NoHands == [present |-> FALSE, hands |-> << >>]
Result(hands) == [present |-> TRUE, hands |-> hands]

\* Mutant of StrumReady: the smoothed wrists are not asked for
StrumReady_StrumHandOnly(w, strum_lm) == strum_lm # 0

\* lines 337-341
StrumReady(w, strum_lm) == w.left.set /\ w.right.set /\ strum_lm # 0

\* lines 314-319
FretWrist(old, hands, fret_lm) ==
    IF fret_lm # 0 THEN SmoothVec3(old, hands[fret_lm].wrist, SMOOTH_ALPHA) ELSE old

\* lines 328-333
StrumWrist(old, hands, strum_lm) ==
    IF strum_lm # 0 THEN SmoothVec3(old, hands[strum_lm].wrist, SMOOTH_ALPHA) ELSE old

\* lines 322-326: the grip point handed to compute_pole_position, if any
GripPoint(hands, fret_lm) ==
    IF fret_lm # 0
      THEN [present |-> TRUE, x |-> hands[fret_lm].grip.x, y |-> hands[fret_lm].grip.y]
      ELSE NoHand

\* poses a hand is seen in, wrist at the common height: on one side of
\* the frame, grip point at a quarter of the frame's width; on the other
\* side, grip point beyond the frame's edge, index fingertip 5 thousandths
\* to one side of the neck line or 4 to the other
Poses ==
    {[wrist |-> Vec(Rat(1, 4), Rat(1, 2)), tip |-> Vec(Rat(1, 2), Rat(495, 1000)),
      grip |-> Vec(Rat(1, 4), Rat(0, 1))]}
      \cup {[wrist |-> Vec(Rat(3, 4), Rat(1, 2)), tip |-> Vec(Rat(1, 2), Rat(y, 1000)),
              grip |-> Vec(Rat(5, 4), Rat(0, 1))] : y \in {495, 504}}

Labels == {"Left", "Right"}

\* results the slot may hold: None, no hand, one hand, two hands in
\* different poses (with equal or different labels)
HandSeqs ==
    {<< >>}
      \cup {<<Hand(l, p.wrist, p.tip, p.grip)>> : l \in Labels, p \in Poses}
      \cup {<<Hand(l[1], p.wrist, p.tip, p.grip), Hand(l[2], q.wrist, q.tip, q.grip)>> :
              l \in Labels \X Labels, p \in Poses, q \in Poses}
HandResults ==
    {NoHands} \cup
    {Result(hs) : hs \in {h \in HandSeqs :
                            /\ Len(h) <= NUM_HANDS
                            /\ Len(h) = 2 => h[1].wrist # h[2].wrist}}

\* the pole detection of every tick: a level pole across the frame
HandPoles == {[a |-> Pt(0, 0), b |-> Pt(MaxPixX, 0)]}

HandsInit ==
    /\ swap_hands = SWAP_HANDS
    /\ wrists = [left |-> NoVec, right |-> NoVec]
    /\ hand_in = NoHands
    /\ roles = NoRoles
    /\ hand_ticks = 0

\* one tick from update_pole_state to handle_strum, given what the slot and
\* the pole detector hold
HandsTick(result, raw) ==
    /\ hand_ticks < MaxHandTicks
    /\ hand_ticks' = hand_ticks + 1
    /\ hand_in' = result
    /\ LET seen == result.present /\ result.hands # << >>
           r == IF seen THEN IdentifyHands(swap_hands, result.hands) ELSE NoRoles
           w == [left |-> FretWrist(wrists.left, result.hands, r.fret),
                 right |-> StrumWrist(wrists.right, result.hands, r.strum)]
           grip == GripPoint(result.hands, r.fret)
           perp == SignedPerpDistance(result.hands[r.strum].tip, w.left, w.right)
           ev == DetectStrum(fretboard, perp).ev
       IN  /\ roles' = r
           /\ wrists' = w
           /\ PoleFrame(raw, grip)
           /\ IF seen /\ StrumReady(w, r.strum)
                THEN /\ DetectStrumCall(perp)
                     /\ IF IsDownStrum(ev)
                          THEN HandleStrumAt(ev.velocity,
                                             FrameResult(pole, raw, grip).position)
                          ELSE UNCHANGED <<audioVars, recVars, handleVars, phoneVars>>
                ELSE UNCHANGED <<strumVars, audioVars, recVars, handleVars, phoneVars>>
    /\ UNCHANGED <<swap_hands, startVars, noteVars, projVars, bridgeVars, runVars>>

RunInit == LockInit /\ SlotInit /\ StreamInit /\ boot = Booted /\ HandsInit

\* detect_pole_endpoints, lines 82-83: (None, None), or two centroids sorted
\* by x; the first on the top row, the second anywhere at or right of it
SortedDetections ==
    {NoDetection} \cup
    {[a |-> Pt(xs[1], 0), b |-> Pt(xs[2], by)] :
        xs \in {ab \in (0..MaxPixX) \X (0..MaxPixX) : ab[1] <= ab[2]},
        by \in 0..MaxPixY}

-----------------------------------------------------------------------------
(* Specifications: one per component, over the shared variables *)

\* the engine alone: callers and timer callbacks in any order
AudioNext ==
    \/ \E t \in Threads, a \in PlayInputs :
          PlayNoteBegin(t, a[1], a[2]) /\ UNCHANGED nonAudioVars
    \/ \E t \in Threads : PlayNoteLocked(t) /\ UNCHANGED nonAudioVars
    \/ \E t \in Threads : PlayNoteStartTimer(t) /\ UNCHANGED nonAudioVars
    \/ \E t \in Threads : PlayNoteAppend(t) /\ UNCHANGED nonAudioVars
    \/ \E i \in SeqIndices(timers) : TimerFire(i) /\ UNCHANGED nonAudioVars
    \/ \E i \in SeqIndices(timers) : NoteOffLocked(i) /\ UNCHANGED nonAudioVars
    \/ \E t \in Stoppers : StopAll(t) /\ UNCHANGED nonAudioVars
    \/ \E t \in Stoppers : ShutdownStopAll(t) /\ UNCHANGED nonAudioVars
    \/ \E t \in Stoppers : ShutdownDelete(t) /\ UNCHANGED nonAudioVars
    \/ \E t \in Stoppers : ShutdownClear(t) /\ UNCHANGED nonAudioVars

\* the other components stay as constructed
InitAudio == AudioInit /\ StrumInit /\ NoteInit /\ RecorderInit /\ PoleInit /\ ProjInit /\ HandleInit /\ BridgeInit /\ RunInit

SpecAudio == InitAudio /\ [][AudioNext]_vars

StrumNext ==
    \E d \in DistVals : DetectStrumCall(d) /\ UNCHANGED nonStrumVars

InitStrum == StrumInit /\ AudioInit /\ synth = "ready" /\ NoteInit /\ RecorderInit /\ PoleInit /\ ProjInit /\ HandleInit /\ BridgeInit /\ RunInit

SpecStrum == InitStrum /\ [][StrumNext]_vars

\* compute_note applied to each tuple of arguments
NoteNext == ComputeNoteCall /\ UNCHANGED nonNoteVars

InitNote == NoteInputs /\ AudioInit /\ synth = "ready" /\ StrumInit /\ RecorderInit /\ PoleInit /\ ProjInit /\ HandleInit /\ BridgeInit /\ RunInit

SpecNote == InitNote /\ [][NoteNext]_vars

\* the recorder alone: start, record and stop in any order as the clock runs
RecorderNext ==
    \/ \E d \in 1..2 : ClockTick(d) /\ UNCHANGED nonRecVars
    \/ RecorderStart /\ UNCHANGED nonRecVars
    \/ RecorderStop /\ UNCHANGED nonRecVars
    \/ \E note \in RecNotes : RecorderRecord(note) /\ UNCHANGED nonRecVars

InitRecorder == RecorderInit /\ AudioInit /\ synth = "ready" /\ StrumInit /\ NoteInit /\ PoleInit /\ ProjInit /\ HandleInit /\ BridgeInit /\ RunInit

SpecRecorder == InitRecorder /\ [][RecorderNext]_vars

\* the pole tracker alone: frames with any detection outcome and hand
PoleNext ==
    \E raw \in Detections, hand \in Hands :
        PoleFrame(raw, hand) /\ UNCHANGED nonPoleVars

InitPole ==
    PoleInit /\ AudioInit /\ synth = "ready" /\ StrumInit /\ NoteInit
             /\ RecorderInit /\ ProjInit /\ HandleInit /\ BridgeInit /\ RunInit

SpecPole == InitPole /\ [][PoleNext]_vars

\* compute_pole_position applied to each tuple of arguments
ProjNext == ProjectBoth /\ UNCHANGED nonProjVars

InitProj ==
    ProjInputs /\ AudioInit /\ synth = "ready" /\ StrumInit /\ NoteInit
               /\ RecorderInit /\ PoleInit /\ HandleInit /\ BridgeInit /\ RunInit

SpecProj == InitProj /\ [][ProjNext]_vars

\* the strum handler with the phone around it; recording may be switched on
HandleNext ==
    \/ PhoneConnect(1) /\ UNCHANGED <<audioVars, recVars, poleVars, nonHandleVars>>
    \/ \E touches \in PhoneMessages :
          PhoneMessage(1, touches, 0)
            /\ UNCHANGED <<audioVars, recVars, poleVars, nonHandleVars>>
    \/ PhoneDisconnect(1) /\ UNCHANGED <<audioVars, recVars, poleVars, nonHandleVars>>
    \/ \E v \in StrumVelocities : HandleStrum(v) /\ UNCHANGED nonHandleVars
    \/ RecorderStart /\ UNCHANGED nonRecVars

InitHandle ==
    HandleInit /\ HandlePoleInit /\ AudioInit /\ StrumInit /\ NoteInit
               /\ RecorderInit /\ ProjInit /\ BridgeInit /\ RunInit

SpecHandle == InitHandle /\ [][HandleNext]_vars

\* the phone server: connections come and go, messages of every kind arrive
nonPhoneVars == <<startVars, handsVars, runVars, audioVars, strumVars, noteVars, poleVars, projVars, bridgeVars>>

PhoneNext ==
    \/ \E c \in PhoneConns : PhoneConnect(c) /\ UNCHANGED <<nonPhoneVars, recVars>>
    \/ \E c \in PhoneConns, touches \in PhoneMessages, m \in Motions :
          PhoneMessage(c, touches, m) /\ UNCHANGED <<nonPhoneVars, recVars>>
    \/ \E c \in PhoneConns : PhoneBadJson(c) /\ UNCHANGED <<nonPhoneVars, recVars>>
    \/ \E c \in PhoneConns : PhoneBadFields(c) /\ UNCHANGED <<nonPhoneVars, recVars>>
    \/ \E c \in PhoneConns : PhoneDisconnect(c) /\ UNCHANGED <<nonPhoneVars, recVars>>
    \/ \E d \in 1..2 : ClockTick(d) /\ UNCHANGED nonRecVars

InitPhone ==
    HandleInit /\ PoleInit /\ AudioInit /\ synth = "ready" /\ StrumInit /\ NoteInit
               /\ RecorderInit /\ ProjInit /\ BridgeInit /\ RunInit

SpecPhone == InitPhone /\ [][PhoneNext]_vars

\* the browser bridge, with the capture thread recording notes meanwhile
nonBridgeVars == <<startVars, handsVars, runVars, audioVars, strumVars, noteVars, poleVars, projVars,
                   handleVars, phoneVars>>

BridgeNext ==
    \/ BridgeConnect /\ UNCHANGED <<nonBridgeVars, recVars>>
    \/ BrowserClose /\ UNCHANGED <<nonBridgeVars, recVars>>
    \/ SendFrame /\ UNCHANGED <<nonBridgeVars, recVars>>
    \/ SendSeesStop /\ UNCHANGED <<nonBridgeVars, recVars>>
    \/ \E cmd \in Commands : RecvCommand(cmd) /\ UNCHANGED nonBridgeVars
    \/ RecvEnd /\ UNCHANGED <<nonBridgeVars, recVars>>
    \/ HandlerWake /\ UNCHANGED <<nonBridgeVars, recVars>>
    \/ \E note \in RecNotes : RecorderRecord(note) /\ UNCHANGED nonRecVars

InitBridge ==
    BridgeInit /\ HandleInit /\ PoleInit /\ AudioInit /\ synth = "ready" /\ StrumInit
               /\ NoteInit /\ RecorderInit /\ ProjInit /\ RunInit

SpecBridge == InitBridge /\ [][BridgeNext]_vars

\* the event loop runs a coroutine that is ready: once asyncio.wait can
\* return, the handler is resumed
SpecBridgeLive == SpecBridge /\ WF_vars(HandlerWake /\ UNCHANGED <<nonBridgeVars, recVars>>)

\* the capture thread and the network thread around the phone lock
nonLockVars == <<startVars, handsVars, slotVars, streamVars, bootVars, audioVars, strumVars, noteVars, poleVars, projVars,
                 bridgeVars, last_notes, handled, strums, phone_ev>>

LockNext ==
    \/ NetConnect /\ UNCHANGED <<nonLockVars, recVars>>
    \/ \E touches \in LockMessages, m \in Motions :
          NetMessage(touches, m) /\ UNCHANGED <<nonLockVars, recVars>>
    \/ NetDisconnect /\ UNCHANGED <<nonLockVars, recVars>>
    \/ NetWrite /\ UNCHANGED <<nonLockVars, recVars>>
    \/ NetLeave /\ UNCHANGED <<nonLockVars, recVars>>
    \/ \E down \in BOOLEAN : LoopTick(down) /\ UNCHANGED <<nonLockVars, recVars>>
    \/ SnapEnter /\ UNCHANGED <<nonLockVars, recVars>>
    \/ SnapCopy /\ UNCHANGED <<nonLockVars, recVars>>
    \/ SnapLeave /\ UNCHANGED <<nonLockVars, recVars>>
    \/ UseSnapshot /\ UNCHANGED <<nonLockVars, recVars>>
    \/ ClockTick(1) /\ UNCHANGED nonRecVars

InitLock ==
    RunInit /\ HandleInit /\ PoleInit /\ AudioInit /\ synth = "ready" /\ StrumInit
            /\ NoteInit /\ RecorderInit /\ ProjInit /\ BridgeInit

SpecLock == InitLock /\ [][LockNext]_vars

\* the capture thread and the landmarker's callback thread
nonSlotVars == <<startVars, handsVars, lockVars, streamVars, bootVars, audioVars, strumVars, noteVars, recVars,
                 poleVars, projVars, handleVars, phoneVars, bridgeVars>>

SlotNext ==
    \/ TickSubmit /\ UNCHANGED nonSlotVars
    \/ TickRead /\ UNCHANGED nonSlotVars
    \/ \E k \in 1..MaxTicks : OnResult(k) /\ UNCHANGED nonSlotVars

InitSlot ==
    RunInit /\ HandleInit /\ PoleInit /\ AudioInit /\ synth = "ready" /\ StrumInit
            /\ NoteInit /\ RecorderInit /\ ProjInit /\ BridgeInit

SpecSlot == InitSlot /\ [][SlotNext]_vars

\* the capture thread publishing frames and one client's frame task
nonStreamVars == <<startVars, handsVars, lockVars, slotVars, bootVars, audioVars, strumVars, noteVars,
                   recVars, poleVars, projVars, handleVars, phoneVars, bridgeVars>>

StreamNext ==
    \/ PublishFrame /\ UNCHANGED nonStreamVars
    \/ StreamRead /\ UNCHANGED nonStreamVars
    \/ StreamSeesStop /\ UNCHANGED nonStreamVars
    \/ StreamSend /\ UNCHANGED nonStreamVars
    \/ StreamSleep /\ UNCHANGED nonStreamVars
    \/ StreamClose /\ UNCHANGED nonStreamVars
    \/ StreamStop /\ UNCHANGED nonStreamVars

InitStream ==
    RunInit /\ HandleInit /\ PoleInit /\ AudioInit /\ synth = "ready" /\ StrumInit
            /\ NoteInit /\ RecorderInit /\ ProjInit /\ BridgeInit

SpecStream == InitStream /\ [][StreamNext]_vars

\* startup, and what each thread does once it is up: the phone server and
\* the browser server accept and lose a connection, the capture loop ticks
nonBootVars == <<startVars, handsVars, lockVars, slotVars, streamVars, audioVars, strumVars,
                 noteVars, recVars, poleVars, projVars, handleVars, phoneVars,
                 bridgeVars>>

BootNext ==
    \/ StartPhoneThread /\ UNCHANGED nonBootVars
    \/ PhoneListen /\ UNCHANGED nonBootVars
    \/ StartProducerThread /\ UNCHANGED nonBootVars
    \/ ProducerCheckModel /\ UNCHANGED nonBootVars
    \/ ProducerOpenCamera /\ UNCHANGED nonBootVars
    \/ ServeBrowser /\ UNCHANGED nonBootVars
    \/ boot.phone_srv = "listening" /\ PhoneConnect(1)
          /\ UNCHANGED <<nonPhoneVars, recVars>>
    \/ boot.phone_srv = "listening" /\ PhoneDisconnect(1)
          /\ UNCHANGED <<nonPhoneVars, recVars>>
    \/ boot.main = "serving" /\ BridgeConnect
          /\ UNCHANGED <<nonBridgeVars, recVars>>
    \/ boot.main = "serving" /\ BrowserClose
          /\ UNCHANGED <<nonBridgeVars, recVars>>
    \/ boot.main = "serving" /\ RecvEnd
          /\ UNCHANGED <<nonBridgeVars, recVars>>
    \/ boot.main = "serving" /\ SendSeesStop
          /\ UNCHANGED <<nonBridgeVars, recVars>>
    \/ boot.main = "serving" /\ HandlerWake
          /\ UNCHANGED <<nonBridgeVars, recVars>>
    \/ boot.producer = "looping" /\ TickSubmit /\ UNCHANGED <<nonSlotVars, bootVars>>
    \/ boot.producer = "looping" /\ TickRead /\ UNCHANGED <<nonSlotVars, bootVars>>

InitBoot ==
    BootInit /\ LockInit /\ SlotInit /\ StreamInit /\ HandsInit /\ HandleInit /\ PoleInit
             /\ AudioInit /\ synth = "ready" /\ StrumInit /\ NoteInit
             /\ RecorderInit /\ ProjInit /\ BridgeInit

SpecBoot == InitBoot /\ [][BootNext]_vars

\* ticks of the capture loop with the phone and the recorder around them
TickNext ==
    \/ \E d \in TickDists : StrumTick(d)
    \/ PhoneConnect(1) /\ UNCHANGED <<audioVars, recVars, poleVars, nonHandleVars, strumVars>>
    \/ \E touches \in TickMessages :
          PhoneMessage(1, touches, 0)
            /\ UNCHANGED <<audioVars, recVars, poleVars, nonHandleVars, strumVars>>
    \/ RecorderStart /\ UNCHANGED nonRecVars

InitTick ==
    HandleInit /\ HandlePoleInit /\ AudioInit /\ StrumInit /\ NoteInit
               /\ RecorderInit /\ ProjInit /\ BridgeInit /\ RunInit

SpecTick == InitTick /\ [][TickNext]_vars

\* ticks of the capture loop with every result the slot may hold
HandsNext == \E result \in HandResults, raw \in HandPoles : HandsTick(result, raw)

InitHands ==
    /\ swap_hands \in BOOLEAN
    /\ wrists = [left |-> NoVec, right |-> NoVec]
    /\ hand_in = NoHands /\ roles = NoRoles /\ hand_ticks = 0
    /\ LockInit /\ SlotInit /\ StreamInit /\ boot = Booted
    /\ HandleInit /\ PoleInit /\ AudioInit /\ synth = "ready" /\ StrumInit
    /\ NoteInit /\ RecorderInit /\ ProjInit /\ BridgeInit

SpecHands == InitHands /\ [][HandsNext]_vars

\* The engine as server.py drives it: play_note and shutdown on the capture
\* thread, the timer callbacks on their own threads, stop_all from another
\* thread.  Every thread that can take a step eventually takes it, and a
\* started timer eventually elapses.
AudioLiveNext ==
    \/ \E a \in PlayInputs :
          PlayNoteBegin("capture", a[1], a[2]) /\ UNCHANGED nonAudioVars
    \/ PlayNoteLocked("capture") /\ UNCHANGED nonAudioVars
    \/ PlayNoteStartTimer("capture") /\ UNCHANGED nonAudioVars
    \/ PlayNoteAppend("capture") /\ UNCHANGED nonAudioVars
    \/ \E i \in SeqIndices(timers) : TimerFire(i) /\ UNCHANGED nonAudioVars
    \/ \E i \in SeqIndices(timers) : NoteOffLocked(i) /\ UNCHANGED nonAudioVars
    \/ StopAll("control") /\ UNCHANGED nonAudioVars
    \/ ShutdownStopAll("capture") /\ UNCHANGED nonAudioVars
    \/ ShutdownDelete("capture") /\ UNCHANGED nonAudioVars
    \/ ShutdownClear("capture") /\ UNCHANGED nonAudioVars

AudioLiveFair ==
    /\ WF_vars(PlayNoteLocked("capture") /\ UNCHANGED nonAudioVars)
    /\ WF_vars(PlayNoteStartTimer("capture") /\ UNCHANGED nonAudioVars)
    /\ WF_vars(PlayNoteAppend("capture") /\ UNCHANGED nonAudioVars)
    /\ \A i \in 1..MaxPlays :
          /\ WF_vars(TimerFire(i) /\ UNCHANGED nonAudioVars)
          /\ WF_vars(NoteOffLocked(i) /\ UNCHANGED nonAudioVars)

SpecAudioLive == InitAudio /\ [][AudioLiveNext]_vars /\ AudioLiveFair

\* the pole tracker fed every sorted detection, in frames without a hand
PoleEndsNext ==
    \E raw \in SortedDetections :
        PoleFrame(raw, NoHand) /\ UNCHANGED nonPoleVars

SpecPoleEnds == InitPole /\ [][PoleEndsNext]_vars

-----------------------------------------------------------------------------
(* Properties *)

(* ---- AudioEngine properties ---- *)

\* pitches that reach the synthesizer in this model
Pitches == {Clip(a[1], 0, 127) : a \in PlayInputs}

OnPositions(p) ==
    {k \in SeqIndices(synth_log) :
        synth_log[k].op = "noteon" /\ synth_log[k].notes = {p}}
OffPositions(p) ==
    {k \in SeqIndices(synth_log) :
        synth_log[k].op = "noteoff" /\ p \in synth_log[k].notes}
TimersOf(p) == {i \in SeqIndices(timers) : timers[i].note = p}
Fired(i) == timers[i].firedAt > 0
NoStopAll == \A k \in SeqIndices(synth_log) : synth_log[k].by # "stop_all"
LastOn(p) == CHOOSE k \in OnPositions(p) : \A j \in OnPositions(p) : j <= k

\* every later play_note of pitch p had sent its noteon before an earlier
\* call's timer callback ran
RetriggeredBeforeFire(p) ==
    \A i \in TimersOf(p) :
        Fired(i) => \A k \in OnPositions(p) :
                        k > timers[i].onAt => k < timers[i].firedAt

AllTimersDone(p) ==
    /\ Cardinality(TimersOf(p)) = Cardinality(OnPositions(p))
    /\ \A i \in TimersOf(p) : timers[i].st = "done"

\* C1: when a pitch is played two or more times on a ready engine, each later
\* call coming before the earlier call's timer callback runs, then whatever
\* the order of the callbacks: every earlier timer sends nothing, any noteoff
\* for the pitch comes from the timer of the last call, and once all the
\* callbacks have run exactly one noteoff has been sent for the pitch.
C1_RetriggerOneNoteOff ==
    \A p \in Pitches :
        (NoStopAll /\ Cardinality(OnPositions(p)) >= 2 /\ RetriggeredBeforeFire(p))
        => /\ \A i \in TimersOf(p) :
                (Fired(i) /\ timers[i].onAt < LastOn(p)) => ~timers[i].sent
           /\ Cardinality(OffPositions(p)) <= 1
           /\ \A k \in OffPositions(p) :
                /\ synth_log[k].by = "timer"
                /\ timers[synth_log[k].tid].onAt = LastOn(p)
           /\ AllTimersDone(p) => Cardinality(OffPositions(p)) = 1

\* C1 witness: a pitch played twice, the timer of the last call has fired
\* first and sent the single noteoff, the earlier timer fired later and sent
\* nothing
C1_Witness ==
    \E p \in Pitches :
        /\ NoStopAll
        /\ Cardinality(OnPositions(p)) >= 2
        /\ RetriggeredBeforeFire(p)
        /\ AllTimersDone(p)
        /\ Cardinality(OffPositions(p)) = 1
        /\ \E i, j \in TimersOf(p) :
              /\ timers[i].onAt < timers[j].onAt
              /\ timers[j].sent /\ ~timers[i].sent
              /\ timers[j].firedAt < timers[i].firedAt

(* ---- strum detector properties ---- *)

\* C2: a call returns a StrumEvent only if the distance of the previous call
\* and the distance of this call have strictly opposite signs and differ by
\* strictly more than STRUM_VELOCITY_THRESHOLD.
C2_StrumOnlyOnFastCrossing ==
    strum_ret # NoEvent =>
        /\ Len(strum_in) = 2
        /\ \/ strum_in[1] < 0 /\ strum_in[2] > 0
           \/ strum_in[1] > 0 /\ strum_in[2] < 0
        /\ Abs(strum_in[2] - strum_in[1]) > STRUM_VELOCITY_THRESHOLD

\* C2 witness: an event was returned for a crossing from -5 to 4
C2_Witness ==
    /\ strum_ret # NoEvent
    /\ strum_in = <<-5, 4>>
    /\ strum_calls > STRUM_COOLDOWN_FRAMES + 2

\* C3: after a call that emits a StrumEvent the next STRUM_COOLDOWN_FRAMES
\* calls emit nothing and each decrements the cooldown by one, so two events
\* are separated by at least STRUM_COOLDOWN_FRAMES calls without event.
C3_CooldownSeparatesEvents ==
    /\ (strum_quiet >= 0 /\ strum_quiet <= STRUM_COOLDOWN_FRAMES) =>
          fretboard.strum_cooldown = STRUM_COOLDOWN_FRAMES - strum_quiet
    /\ (strum_ret # NoEvent /\ strum_gap >= 0) =>
          strum_gap >= STRUM_COOLDOWN_FRAMES

\* C3 witness: two events separated by exactly STRUM_COOLDOWN_FRAMES calls
C3_Witness ==
    /\ strum_ret # NoEvent
    /\ strum_gap = STRUM_COOLDOWN_FRAMES
    /\ fretboard.strum_count = 2

(* ---- note engine properties ---- *)

In01(r) == RLe(Rat(0, 1), r) /\ RLe(r, Rat(1, 1))

\* C4: for every string index, fret and pole position in [0, 1] and strum
\* velocity, compute_note returns 0 <= midi_note <= 127,
\* MIDI_VELOCITY_MIN <= velocity <= MIDI_VELOCITY_MAX and
\* NOTE_DURATION_MIN <= duration <= NOTE_DURATION_MAX.
C4_NoteResultInRange ==
    (note_out # NoNote /\ In01(note_in.fret_y) /\ In01(note_in.pole_position)) =>
        /\ 0 <= note_out.midi_note /\ note_out.midi_note <= 127
        /\ MIDI_VELOCITY_MIN <= note_out.velocity
        /\ note_out.velocity <= MIDI_VELOCITY_MAX
        /\ RLe(Rat(NOTE_DURATION_MIN, 1), note_out.duration)
        /\ RLe(note_out.duration, Rat(NOTE_DURATION_MAX, 1))

\* C4 witness: a call with top fret and pole positions on the highest string
\* and a velocity above the mapping range, whose result sits on the upper
\* velocity and duration limits
C4_Witness ==
    /\ note_out # NoNote
    /\ note_in.fret_y = Rat(FretGrid, FretGrid)
    /\ note_in.pole_position = Rat(PoleGrid, PoleGrid)
    /\ note_in.strum_velocity > STRUM_VEL_MAP_MAX
    /\ note_out.velocity = MIDI_VELOCITY_MAX
    /\ note_out.midi_note = 64 + POLE_SEMITONE_RANGE + NUM_FRETS - 1

(* ---- MIDI recorder properties ---- *)

\* C7: for a start, then n record calls, then a stop, the list stop returns
\* has exactly n entries, in the order the notes were recorded; their time
\* fields are non-decreasing and equal, to the millisecond, the time elapsed
\* between the start and each record call.
C7_StopReturnsRecordedInOrder ==
    rec_closed.valid =>
        /\ Len(rec_ret) = Len(rec_closed.calls)
        /\ \A i \in SeqIndices(rec_ret) :
              /\ rec_ret[i].midi_note = rec_closed.calls[i].note.midi_note
              /\ 2 * Abs(rec_ret[i].time * TicksPerMs
                         - (rec_closed.calls[i].at - rec_closed.start_at))
                    <= TicksPerMs
        /\ \A i, j \in SeqIndices(rec_ret) :
              i <= j => rec_ret[i].time <= rec_ret[j].time

\* C7 witness: a stop returned three events recorded at three different
\* times after a start that was itself later than the clock's origin
C7_Witness ==
    /\ rec_closed.valid
    /\ Len(rec_ret) = 3
    /\ rec_closed.start_at > 0
    /\ rec_ret[1].time < rec_ret[2].time
    /\ rec_ret[2].time < rec_ret[3].time
    /\ rec_ret[1].midi_note # rec_ret[2].midi_note

-----------------------------------------------------------------------------
(* Pole tracker properties *)

\* the frame just processed found fewer than two qualifying regions
MissedFrame == pole_raw' = NoDetection

Locked(p) == p.detected /\ p.end_a.set /\ p.end_b.set

\* C8 as stated: once the tracker has locked onto a pole, a frame whose
\* detection finds fewer than two regions sets detected to false and leaves
\* both endpoints at their last smoothed values.
C8_MissClearsDetected ==
    [][(Locked(pole) /\ MissedFrame) =>
          /\ ~pole'.detected
          /\ pole'.end_a = pole.end_a
          /\ pole'.end_b = pole.end_b]_vars

\* The endpoint half of C8 alone: a missed frame leaves both endpoints as
\* they were.
C8_MissKeepsEndpoints ==
    [][MissedFrame => (pole'.end_a = pole.end_a /\ pole'.end_b = pole.end_b)]_vars

\* scaled dot product and squared length computed from the stored state:
\* dot(P - A, B - A) = PoleDotN / PoleDotD
PoleDotD(w) == w.x.d * w.y.d
PoleDotN(w, p) ==
    (w.x.n * FrameW - p.end_a.x * w.x.d) * (p.end_b.x - p.end_a.x) * w.y.d
    + (w.y.n * FrameH - p.end_a.y * w.y.d) * (p.end_b.y - p.end_a.y) * w.x.d
PoleLenSq(p) ==
    (p.end_b.x - p.end_a.x) * (p.end_b.x - p.end_a.x)
    + (p.end_b.y - p.end_a.y) * (p.end_b.y - p.end_a.y)
Degenerate(p) ==
    ~p.end_a.set \/ ~p.end_b.set \/ (p.end_a.x = p.end_b.x /\ p.end_a.y = p.end_b.y)

\* what C9 says the projection of reference point w on pole p is
ClampedProjection(w, p, t) ==
    IF Degenerate(p) THEN REq(t, Rat(1, 2))
    ELSE IF PoleDotN(w, p) <= 0 THEN REq(t, Rat(0, 1))
    ELSE IF PoleDotN(w, p) >= PoleLenSq(p) * PoleDotD(w) THEN REq(t, Rat(1, 1))
    ELSE REq(t, Rat(PoleDotN(w, p), PoleLenSq(p) * PoleDotD(w)))

\* C9: PoleState.position is in [0,1] in every reachable state, and the value
\* stored for the latest grip point is 1/2 when an endpoint is unset or the
\* endpoints coincide, and otherwise the projection onto A-B clamped to [0,1]
\* (0 before A, 1 beyond B).
C9_PositionClampedProjection ==
    /\ RLe(Rat(0, 1), pole.position) /\ RLe(pole.position, Rat(1, 1))
    /\ pole_hand.present => ClampedProjection(pole_hand, pole, pole.position)

\* a grip point beyond B on a non-degenerate pole: the position is 1
C9_Witness ==
    /\ pole_hand.present
    /\ ~Degenerate(pole)
    /\ PoleDotN(pole_hand, pole) > PoleLenSq(pole) * PoleDotD(pole_hand)
    /\ pole.position = Rat(1, 1)

ProjDone == proj_out # NoProj

-----------------------------------------------------------------------------
(* Strum handling properties *)

\* the noteon calls the latest handle_strum put on the synthesizer
HandledNoteOns == SubSeq(synth_log, handled.log_before + 1, Len(synth_log))

\* the play_note calls of the latest handle_strum reached the synthesizer
\* one for one (nothing is sent when the synthesizer failed to start)
HandledSounded ==
    IF Ready
      THEN /\ Len(HandledNoteOns) = Len(handled.calls)
           /\ \A i \in 1..Len(handled.calls) :
                 /\ HandledNoteOns[i].op = "noteon"
                 /\ HandledNoteOns[i].notes = {handled.calls[i].result.midi_note}
      ELSE HandledNoteOns = << >>

\* C5: a down-strum handled with no touches in the snapshot triggers exactly
\* num_strings notes, one per string index 0..num_strings-1 in order, each at
\* the string's open base pitch with zero fret and zero pole offset, whatever
\* the pole position is.
C5_OpenStrumAllStrings ==
    (handled.valid /\ handled.touches = << >>) =>
        /\ Len(handled.calls) = num_strings
        /\ \A i \in 1..Len(handled.calls) :
              LET c == handled.calls[i]
              IN  /\ c.string = i - 1
                  /\ FretToSemitones(c.fret_y) = 0
                  /\ PoleToSemitones(c.pole_position) = 0
                  /\ c.result.midi_note = STRING_BASE_MIDI(num_strings)[i]
        /\ HandledSounded

\* an open strum of six notes on a live synthesizer while the pole position
\* would shift a fretted string
C5_Witness ==
    /\ handled.valid
    /\ handled.touches = << >>
    /\ PoleToSemitones(handled.pole_pos) > 0
    /\ Ready
    /\ Len(HandledNoteOns) = 6

TouchedStrings == {handled.touches[i].string : i \in 1..Len(handled.touches)}

\* the greatest y among the snapshot's touches on string s
WinningY(s, y) ==
    /\ \E i \in 1..Len(handled.touches) :
          handled.touches[i].string = s /\ REq(handled.touches[i].y, y)
    /\ \A i \in 1..Len(handled.touches) :
          handled.touches[i].string = s => RLe(handled.touches[i].y, y)

\* the string whose table entry a call sounds
SoundedString(c) == StringIdx(num_strings, c.string)

\* every note of the latest strum is the touched string's note: one call per
\* touched string, with the winning touch's fret offset and the pole offset
TouchedNotes ==
    /\ Len(handled.calls) = Cardinality(TouchedStrings)
    /\ \A i \in 1..Len(handled.calls) :
          LET c == handled.calls[i]
          IN  /\ c.string \in TouchedStrings
              /\ WinningY(c.string, c.fret_y)
              /\ c.pole_position = handled.pole_pos
              /\ c.result.midi_note =
                    Clip(STRING_BASE_MIDI(num_strings)[SoundedString(c) + 1]
                         + FretToSemitones(c.fret_y)
                         + PoleToSemitones(handled.pole_pos), 0, 127)

\* C6 as stated: a down-strum handled with at least one touch in the snapshot
\* triggers notes only for the strings that have a touch, each with that
\* touch's fret offset and the current pole offset; no untouched string sounds.
C6_OnlyTouchedStringsSound ==
    (handled.valid /\ handled.touches # << >>) =>
        /\ TouchedNotes
        /\ HandledSounded
        /\ \A i \in 1..Len(handled.calls) :
              SoundedString(handled.calls[i]) \in TouchedStrings

\* The same for snapshots whose touches all carry a string index of the
\* instrument (0..num_strings-1).
C6_AssignedTouchesSound ==
    (/\ handled.valid
     /\ handled.touches # << >>
     /\ TouchedStrings \subseteq 0..(num_strings - 1)) =>
        /\ TouchedNotes
        /\ HandledSounded
        /\ \A i \in 1..Len(handled.calls) :
              SoundedString(handled.calls[i]) \in TouchedStrings

-----------------------------------------------------------------------------
(* AudioEngine without a synthesizer *)

\* no call is inside play_note past its ready check, and none has raised
NoPlayInProgress ==
    \A t \in Threads : pc[t] \notin {"play_lock", "play_timer", "play_append", "raised"}

\* C11: when _init_synth leaves no synthesizer the engine reports not ready,
\* and whatever play_note, note-off callbacks and stop_all calls follow,
\* nothing is sent to a synthesizer, no call raises, no timer is started and
\* no generation counter changes.
C11_NotReadyIsNoOp ==
    ~synth_started =>
        /\ ~Ready
        /\ synth_log = << >>
        /\ timers = << >>
        /\ active_timers = << >>
        /\ note_gen = << >>
        /\ NoPlayInProgress

\* a failed start after which play_note and stop_all have both been called
\* and have returned
C11_Witness ==
    /\ ~synth_started
    /\ plays = MaxPlays
    /\ stops > 0
    /\ \A t \in Threads : pc[t] = "idle"

-----------------------------------------------------------------------------
(* Strum handling without a synthesizer *)

\* the event record() makes of a note result at the time of the latest strum
EventOf(result) ==
    [time |-> RoundMs(handled.at - handled.started), midi_note |-> result.midi_note,
     velocity |-> result.velocity, duration |-> RoundDuration(result.duration),
     name |-> result.name]

\* C12: a down-strum handled while recording is active computes the notes
\* that follow from the touches, the pole position and the velocity alone,
\* and appends one recorder event per note, in order -- with the engine not
\* ready just as with a ready one.
C12_RecordingUnaffectedByAudio ==
    (handled.valid /\ handled.recording) =>
        /\ handled.calls = NoteCalls(num_strings, handled.touches, handled.pole_pos,
                                     handled.velocity)
        /\ Len(handled.recorded) = Len(handled.calls)
        /\ \A i \in 1..Len(handled.calls) :
              handled.recorded[i] = EventOf(handled.calls[i].result)

\* an open strum recorded in full although the synthesizer never started
C12_Witness ==
    /\ ~synth_started
    /\ handled.valid
    /\ handled.recording
    /\ Len(handled.recorded) = 6
    /\ synth_log = << >>

-----------------------------------------------------------------------------
(* stop_all *)

\* positions in synth_log of the all-notes-off of a stop_all call
StopPositions == {k \in SeqIndices(synth_log) : synth_log[k].by = "stop_all"}

\* timer i had been started when the stop_all logged at position k ran
StartedBefore(i, k) == timers[i].startLen < k

\* a step that is a stop_all call (alone or as the first step of shutdown)
StopAllStep == stops' = stops + 1

\* C13 as stated: stop_all leaves the active-timer list empty and sends a
\* noteoff for every pitch 0..127, and no timer started before a stop_all
\* sends its noteoff after that stop_all, also with play_note running on
\* another thread.  (The model has the one channel the engine uses.)
C13_StopAllSilencesAll ==
    /\ [][StopAllStep => active_timers' = << >>]_vars
    /\ [](\A k \in StopPositions :
             /\ synth_log[k].notes = MidiNotes
             /\ \A i \in SeqIndices(timers) :
                   (StartedBefore(i, k) /\ timers[i].sent) => timers[i].firedAt < k)

\* What stop_all does achieve: a timer it cancelled never sends, and the
\* noteoff covers every pitch.
C13_CancelledTimersSilent ==
    /\ \A i \in SeqIndices(timers) : timers[i].st = "cancelled" => ~timers[i].sent
    /\ \A k \in StopPositions : synth_log[k].notes = MidiNotes

-----------------------------------------------------------------------------
(* Phone server properties *)

\* the step is the phone-server event of kind k
PhoneStep(k) == phone_ev' # phone_ev /\ phone_ev'.kind = k

\* C15 as stated: a message that is not valid JSON, or valid JSON without the
\* expected fields, is dropped: PhoneState is unchanged and the connection
\* stays open, so that the next well-formed message is applied.
C15_MalformedDropped ==
    [][(PhoneStep("bad_json") \/ PhoneStep("bad_fields")) =>
          /\ phone' = phone
          /\ conns'[phone_ev'.conn] = "open"]_vars

\* The half of C15 about text that is not JSON at all.
C15_NonJsonDropped ==
    [][PhoneStep("bad_json") =>
          /\ phone' = phone
          /\ conns'[phone_ev'.conn] = "open"]_vars

\* C16: whenever a phone connection ends, by a close or by an error in the
\* handler, connected becomes false and touches becomes empty; a connection
\* accepted afterwards makes connected true again.
C16_DisconnectResets ==
    [][/\ (\E c \in PhoneConns : conns[c] = "open" /\ conns'[c] = "closed")
          => (~phone'.connected /\ phone'.touches = << >>)
       /\ (\E c \in PhoneConns : conns[c] = "closed" /\ conns'[c] = "open")
          => phone'.connected]_vars

\* a connection that had delivered a message has just been ended by an
\* error in its handler, and the state is reset
C16_Witness ==
    /\ phone_ev.kind = "bad_fields"
    /\ phone.last_update > 0
    /\ ~phone.connected
    /\ phone.touches = << >>
    /\ \A c \in PhoneConns : conns[c] = "closed"

\* C17 as stated: connected is true exactly when a phone connection is open.
C17_ConnectedIffOpen ==
    phone.connected <=> (\E c \in PhoneConns : conns[c] = "open")

-----------------------------------------------------------------------------
(* Browser bridge properties *)

LastIs(action) == last_cmd.valid /\ last_cmd.cmd.action = action

\* C14 as stated: a set_instrument command whose instrumentId is in the map,
\* or whose gmProgram parses as an integer, changes the engine's program to
\* that program, is answered by exactly one status message, and leaves the
\* command loop running for later commands.
C14_SetInstrumentApplied ==
    (LastIs("set_instrument") /\ ResolveProgram(last_cmd.cmd) # NoProgram) =>
        /\ program = ResolveProgram(last_cmd.cmd)
        /\ Len(last_cmd.replies) = 1
        /\ last_cmd.replies[1].type = "status"
        /\ last_cmd.recv_after = "running"

\* The set_instrument commands that name no program are answered by one
\* status message and the loop goes on.
C14_UnresolvedInstrumentAnswered ==
    (LastIs("set_instrument") /\ ResolveProgram(last_cmd.cmd) = NoProgram) =>
        /\ program = INSTRUMENT_PROGRAM
        /\ Len(last_cmd.replies) = 1
        /\ last_cmd.replies[1].type = "status"
        /\ last_cmd.recv_after = "running"

OneTaskEnded == bridge.send = "done" \/ bridge.recv = "done"
HandlerReturned == bridge.handler = "returned"

\* C18: the two tasks run side by side; once either has ended the handler
\* returns, cancelling the other, and a handler that has returned leaves
\* neither task running.
C18_FirstTaskEndsConnection ==
    /\ [](HandlerReturned => (bridge.send # "running" /\ bridge.recv # "running"))
    /\ [](bridge.handler = "waiting" =>
            (bridge.send \in {"running", "done"} /\ bridge.recv \in {"running", "done"}))
    /\ (OneTaskEnded ~> HandlerReturned)

\* a frame send failed on a closed socket and the handler returned,
\* cancelling the command task
C18_Witness ==
    /\ HandlerReturned
    /\ bridge.send = "done"
    /\ bridge.recv = "cancelled"

\* the events of the record calls accepted since the last start, as the
\* recorder stores them
EventsSinceStart ==
    [i \in 1..Len(rec_closed.calls) |->
        MidiEvent(rec_closed.calls[i].at, rec_closed.start_at, rec_closed.calls[i].note)]

\* C19: a start command leaves the recorder recording and is answered by
\* exactly one status message with recording = true; a stop command is
\* answered by exactly one midi message with the events recorded since the
\* last start (none if no recording was active) and total = their number,
\* then exactly one status message with recording = false.
C19_StartStopReplies ==
    /\ LastIs("start") =>
          /\ last_cmd.recording_after
          /\ last_cmd.replies = <<StatusMsg(TRUE, "started")>>
    /\ LastIs("stop") =>
          /\ ~last_cmd.recording_after
          /\ Len(last_cmd.replies) = 2
          /\ last_cmd.replies[1].type = "midi"
          /\ last_cmd.replies[1].events = EventsSinceStart
          /\ last_cmd.replies[1].total = Len(EventsSinceStart)
          /\ last_cmd.replies[2] = StatusMsg(FALSE, "stopped")

\* a stop command answered with the two notes recorded since the start
C19_Witness ==
    /\ LastIs("stop")
    /\ rec_closed.valid
    /\ Len(last_cmd.replies) = 2
    /\ last_cmd.replies[1].total = 2
    /\ rec_count = 3

-----------------------------------------------------------------------------
(* Recording only between start and stop *)

\* a step that is a record call made with no recording open: before the
\* first start, or after a stop and before the next start
RecordOutsideStep == rec_count' = rec_count + 1 /\ ~rec_open

\* C20: a record call made before the first start, or after a stop and
\* before the next start, appends nothing; the recorder holds no events
\* while no recording is open, and every event a stop returns comes from a
\* record call made after the most recent start and before that stop.
C20_EventsOnlyWhileRecording ==
    /\ [][RecordOutsideStep => recorder'.events = recorder.events]_vars
    /\ [](/\ ~rec_open => recorder.events = << >>
          /\ Len(rec_ret) = Len(rec_closed.calls)
          /\ ~rec_closed.valid => rec_ret = << >>
          /\ \A i \in SeqIndices(rec_ret) :
                /\ rec_closed.start_at <= rec_closed.calls[i].at
                /\ rec_ret[i].midi_note = rec_closed.calls[i].note.midi_note
                /\ rec_ret[i].time >= 0)

\* three record calls were made, one of them between the start and the stop:
\* the stop returned that one alone
C20_Witness ==
    /\ rec_count = 3
    /\ rec_closed.valid
    /\ ~rec_open
    /\ Len(rec_ret) = 1
    /\ recorder.events = << >>

-----------------------------------------------------------------------------
(* The list handed off by stop *)

\* a step that is not a stop: a start, a record call or a clock tick
NotStopStep == rec_open' \/ rec_count' # rec_count \/ now' # now

\* C21: once stop has returned, and until the next start, the recorder holds
\* no events and is not recording; a stop that no start preceded since the
\* stop before it returns the empty list; no start and no record call made
\* later changes the list a stop returned.
C21_StopHandsOffList ==
    /\ [](~rec_open => recorder.events = << >> /\ ~recorder.recording)
    /\ [](~rec_closed.valid => rec_ret = << >>)
    /\ [][NotStopStep => rec_ret' = rec_ret]_vars

\* a stop returned one event; a later start and two later record calls
\* filled the recorder again and the returned list still has its one event
C21_Witness ==
    /\ rec_closed.valid
    /\ Len(rec_ret) = 1
    /\ rec_open
    /\ Len(recorder.events) = 2

-----------------------------------------------------------------------------
(* Phone lock properties *)

\* a step taken by the capture thread
MainStep == <<main_pc, snap_todo>>' # <<main_pc, snap_todo>>

\* the snapshot agrees with `state` on every field it copies
SnapEquals(state, fields) ==
    \A i \in SeqIndices(fields) : phone_snap[fields[i]] = state[fields[i]]

\* C22: no step of the capture loop changes the shared PhoneState; the loop
\* does not hold the phone lock while it runs handle_strum or draws; the
\* snapshot it then works with equals, field by field, the shared state of
\* the instant the copy began, and at that instant no network update was
\* half applied.
C22_SnapshotUnderLock ==
    /\ [][MainStep => phone' = phone]_vars
    /\ [](main_pc \in {"top", "handle_strum", "draw_phone_panel"} => plock # "main")
    /\ [](main_pc = "handle_strum" =>
            ~snap_at.writing /\ SnapEquals(snap_at.state, StrumSnapFields))
    /\ [](main_pc = "draw_phone_panel" =>
            ~snap_at.writing /\ SnapEquals(snap_at.state, PanelSnapFields))

\* the panel is drawn from a snapshot of a connected phone with touches,
\* while the network thread has already written a newer update
C22_Witness ==
    /\ main_pc = "draw_phone_panel"
    /\ phone_snap.connected
    /\ phone_snap.touches # << >>
    /\ phone_snap.last_update > 0
    /\ phone.last_update > phone_snap.last_update
    /\ phone.touches # phone_snap.touches

-----------------------------------------------------------------------------
(* Result slot properties *)

CallbackStep == last_cb' # last_cb
ReadStep == Len(tick_reads') = Len(tick_reads) + 1

\* C24: a completed callback leaves its result in the slot, whatever the
\* slot held; a tick's read leaves the slot as it is and yields the result
\* of the most recently completed callback, or nothing when none has
\* completed; a tick that has reached the read can always take it, whether
\* or not a result has arrived since the tick before.
C24_SingleSlotMailbox ==
    /\ [][CallbackStep => latest_result' = last_cb']_vars
    /\ [][ReadStep => /\ latest_result' = latest_result
                      /\ tick_reads'[Len(tick_reads')] = last_cb]_vars
    /\ [](tick_pc = "read" => ENABLED TickRead)

\* the first tick read nothing, and two later ticks in a row consumed the
\* result of the same frame while a newer frame had been submitted
C24_Witness ==
    /\ Len(tick_reads) = 3
    /\ tick_reads[1] = NoResult
    /\ tick_reads[2] # NoResult
    /\ tick_reads[3] = tick_reads[2]
    /\ tick_reads[3] < submitted

-----------------------------------------------------------------------------
(* Outbound frame properties *)

FrameSentStep == Len(stream.sent') = Len(stream.sent) + 1

\* C25: a frame that is sent is the one that was the producer's latest when
\* the frame task read it; the frames sent to the client are in strictly
\* increasing order, so none follows a newer one and none is sent twice in
\* a row; the task holds at most the one frame it read, so of the frames
\* published during a send only the latest can be sent next.
C25_LatestFrameOnly ==
    /\ [][FrameSentStep =>
            stream.sent'[Len(stream.sent')] = stream.seen]_vars
    /\ [](\A i, j \in SeqIndices(stream.sent) :
            i < j => stream.sent[i] < stream.sent[j])
    /\ [](stream.pc = "send" => stream.jpeg = stream.seen /\ stream.jpeg <= made)

\* frames 1 and 4 were sent; frames 2 and 3 were published in between and
\* never sent
C25_Witness ==
    /\ stream.sent = <<1, 4>>
    /\ made = 4

-----------------------------------------------------------------------------
(* Startup properties *)

StartupFailed == boot.producer = "returned"

C23_NoFrameLoopAfterFailure ==
    (~boot.model_file \/ ~boot.camera) =>
        submitted = 0 /\ boot.producer # "looping"

-----------------------------------------------------------------------------
(* Touches on the same string *)

\* C26: for every string the snapshot has a touch on, handle_strum makes
\* exactly one note call, and that call's fret position is the greatest y
\* among the touches on that string, whichever of them is listed first.
C26_GreatestYWins ==
    handled.valid =>
        \A i \in SeqIndices(handled.touches) :
            LET s == handled.touches[i].string
                on_s == {k \in SeqIndices(handled.calls) : handled.calls[k].string = s}
            IN  /\ Cardinality(on_s) = 1
                /\ \A k \in on_s :
                      /\ ~handled.calls[k].open
                      /\ \A j \in SeqIndices(handled.touches) :
                            handled.touches[j].string = s
                                => RLe(handled.touches[j].y, handled.calls[k].fret_y)
                      /\ \E j \in SeqIndices(handled.touches) :
                            /\ handled.touches[j].string = s
                            /\ REq(handled.touches[j].y, handled.calls[k].fret_y)

\* two touches on string 2, the greater y listed first: one call, with the
\* first touch's y
C26_Witness ==
    /\ handled.valid
    /\ Len(handled.touches) = 2
    /\ handled.touches[1].string = handled.touches[2].string
    /\ RLt(handled.touches[2].y, handled.touches[1].y)
    /\ Len(handled.calls) = 1
    /\ REq(handled.calls[1].fret_y, handled.touches[1].y)

-----------------------------------------------------------------------------
(* Strum dispatch properties *)

\* a step that is one tick's detect_strum call
TickStep == strum_calls' = strum_calls + 1

\* the notes the tick computes from the state it starts in
TickCalls(velocity) == NoteCalls(num_strings, phone.touches, pole.position, velocity)

\* the note-on a ready engine sends for a call, and the recorded event
NoteOnOf(call) ==
    SynthCall("noteon", {Clip(call.result.midi_note, 0, 127)},
              Clip(call.result.velocity, 0, 127), "play", 0)

\* C27: a tick whose detect_strum returns no event or an up strum leaves the
\* audio engine and the recorder as they were; a tick with a down strum
\* hands every note it computes to the engine once, in order (a ready
\* engine sends one note-on and starts one timer for each), and the
\* recorder, if recording, gains one event per note, in order, and nothing
\* if not.
C27_NotesOnlyOnDownStrum ==
    /\ [][TickStep /\ strum_ret'.direction # "down" =>
            UNCHANGED <<audioVars, recorder, rec_ret, last_notes, handled>>]_vars
    /\ [][TickStep /\ strum_ret'.direction = "down" =>
            LET calls == TickCalls(strum_ret'.velocity)
            IN  /\ handled'.valid /\ handled'.calls = calls
                /\ synth_log' = IF Ready
                                  THEN synth_log \o [i \in 1..Len(calls) |-> NoteOnOf(calls[i])]
                                  ELSE synth_log
                /\ Len(timers') = Len(timers) + (IF Ready THEN Len(calls) ELSE 0)
                /\ recorder' = IF recorder.recording
                                 THEN [recorder EXCEPT !.events =
                                         recorder.events \o
                                         [i \in 1..Len(calls) |->
                                            MidiEvent(now, recorder.start_time,
                                                      calls[i].result)]]
                                 ELSE recorder]_vars

\* an up strum was detected after a down strum had played two fretted
\* strings and recorded them: nothing was added by the up strum
C27_Witness ==
    /\ strum_ret.direction = "up"
    /\ strums = 1
    /\ handled.valid
    /\ Len(handled.calls) = 2
    /\ Len(synth_log) = 2
    /\ Len(recorder.events) = 2

-----------------------------------------------------------------------------
(* Pitch arithmetic of the note engine *)

NoteDone == note_out # NoNote

\* the open-string entry the claim names: entry 0 for a negative index, the
\* last entry for an index past the end
BaseEntry(num, string_index) ==
    LET table == STRING_BASE_MIDI(num)
    IN  IF string_index < 0 THEN table[1]
        ELSE IF string_index >= Len(table) THEN table[Len(table)]
        ELSE table[string_index + 1]

\* floor(fret_position * NUM_FRETS) clamped to [0, NUM_FRETS - 1]
FloorClamped(fret_y) == Clip(FloorDiv(fret_y.n * NUM_FRETS, fret_y.d), 0, NUM_FRETS - 1)

\* k is an integer nearest to clamp(pole_position, 0, 1) * POLE_SEMITONE_RANGE
NearestToPole(k, pole_position) ==
    LET t == RClip01(pole_position)
    IN  2 * Abs(t.n * POLE_SEMITONE_RANGE - k * t.d) <= t.d

\* C28: the midi_note compute_note returns is base + fret offset + pole
\* offset clamped to [0, 127], base being the table entry at the string
\* index clamped to the table; the name it returns is that note's name, so
\* the pitch is a function of the arguments and the engine's table alone.
C28_MidiNoteIsClampedSum ==
    NoteDone =>
        /\ note_out.midi_note =
              Clip(BaseEntry(num_strings, note_in.string_index)
                     + FretToSemitones(note_in.fret_y)
                     + PoleToSemitones(note_in.pole_position), 0, 127)
        /\ note_out.name = MidiNoteName(note_out.midi_note)
        /\ (REq(note_in.fret_y, Rat(0, 1)) /\ REq(note_in.pole_position, Rat(0, 1)))
              => note_out.midi_note = BaseEntry(num_strings, note_in.string_index)

\* a call with string index -1 on a six-string table, the fret position in
\* the middle and the pole at its far end: the lowest string's pitch, shifted
C28_Witness ==
    /\ NoteDone
    /\ num_strings = 6
    /\ note_in.string_index = -1
    /\ REq(note_in.fret_y, Rat(1, 2))
    /\ REq(note_in.pole_position, Rat(1, 1))
    /\ note_out.midi_note = 40 + 3 + POLE_SEMITONE_RANGE

\* C29: the fret offset is floor(fret_position * NUM_FRETS) clamped to
\* [0, NUM_FRETS - 1], an integer; it does not decrease when the position
\* grows, is 0 at position 0 and NUM_FRETS - 1 at position 1; with the pole
\* at 0 it is what compute_note adds to the string's base pitch.
C29_FretOffsetFloorClamped ==
    NoteDone =>
        LET f == note_in.fret_y
        IN  /\ FretToSemitones(f) \in 0..(NUM_FRETS - 1)
            /\ FretToSemitones(f) = FloorClamped(f)
            /\ \A g \in FretArgs : RLe(f, g) => FretToSemitones(f) <= FretToSemitones(g)
            /\ REq(f, Rat(0, 1)) => FretToSemitones(f) = 0
            /\ REq(f, Rat(1, 1)) => FretToSemitones(f) = NUM_FRETS - 1
            /\ REq(note_in.pole_position, Rat(0, 1)) =>
                  note_out.midi_note =
                      BaseEntry(num_strings, note_in.string_index) + FretToSemitones(f)

\* a call at fret position 1 with the pole at 0: the top fret, five
\* semitones above the open string
C29_Witness ==
    /\ NoteDone
    /\ REq(note_in.fret_y, Rat(1, 1))
    /\ REq(note_in.pole_position, Rat(0, 1))
    /\ note_in.string_index = 0
    /\ note_out.midi_note = 40 + NUM_FRETS - 1

StrumCallStep == strum_calls' = strum_calls + 1

\* C31: every StrumEvent returned has direction "down" if the distance of
\* this call is greater than the distance of the previous call and "up"
\* otherwise, and its velocity is the absolute difference of the two, which
\* is strictly greater than STRUM_VELOCITY_THRESHOLD.
C31_EventDirectionAndVelocity ==
    strum_ret # NoEvent =>
        /\ Len(strum_in) = 2
        /\ strum_ret.direction = (IF strum_in[2] > strum_in[1] THEN "down" ELSE "up")
        /\ strum_ret.velocity = Abs(strum_in[2] - strum_in[1])
        /\ strum_ret.velocity > STRUM_VELOCITY_THRESHOLD
        /\ fretboard.last_strum_direction = strum_ret.direction

\* an up strum: the distance fell from 4 to -5, velocity 9
C31_Witness ==
    /\ strum_ret = StrumEvent("up", 9)
    /\ strum_in = <<4, -5>>

\* strum_count is the number of events returned so far
CounterIsEventCount ==
    /\ fretboard.strum_count = strum_emitted
    /\ strum_ret # NoEvent => fretboard.strum_cooldown = STRUM_COOLDOWN_FRAMES
    /\ strum_calls > 0 => fretboard.prev_perp_dist = strum_in[Len(strum_in)]

\* what one call does to the counter, the cooldown and prev_perp_dist
CounterStep ==
    StrumCallStep =>
        /\ strum_ret' # NoEvent =>
              /\ fretboard'.strum_count = fretboard.strum_count + 1
              /\ fretboard'.strum_cooldown = STRUM_COOLDOWN_FRAMES
        /\ strum_ret' = NoEvent => fretboard'.strum_count = fretboard.strum_count
        /\ fretboard'.prev_perp_dist = strum_in'[Len(strum_in')]

C33_CrossingAlwaysDetected ==
    [][(/\ StrumCallStep
        /\ fretboard.strum_cooldown = 0
        /\ Len(fretboard.perp_history) >= 1
        /\ LET prev == fretboard.prev_perp_dist
               cur == strum_in'[Len(strum_in')]
           IN  /\ (prev < 0 /\ cur > 0) \/ (prev > 0 /\ cur < 0)
               /\ Abs(cur - prev) > STRUM_VELOCITY_THRESHOLD)
       => strum_ret' # NoEvent]_vars

\* the second call of a run crossed from 4 to -5 and was answered with an
\* event: the earliest call that can emit
C33_Witness ==
    /\ strum_calls = 2
    /\ strum_in = <<4, -5>>
    /\ strum_ret # NoEvent
    /\ fretboard.strum_count = 1

(* ---- hands of one tick ---- *)

\* the step is a tick of the capture loop
HandsTickStep == hand_ticks' = hand_ticks + 1

\* the latest tick found hands in the result and called identify_hands
HandsSeen == hand_ticks > 0 /\ hand_in.present /\ hand_in.hands # << >>

\* C34: identify_hands fills each role with at most one detected hand and
\* never both roles with the same hand; without hands both roles are None,
\* with one hand exactly one role is filled; the label that fills the fret
\* role is "Left", or "Right" when SWAP_HANDS is set, and the other label
\* fills the strum role, so that the flag exchanges the two roles.
C34_RolesAssigned ==
    /\ \A swap \in BOOLEAN : IdentifyHands(swap, << >>) = NoRoles
    /\ hand_ticks > 0 /\ ~HandsSeen => roles = NoRoles
    /\ HandsSeen =>
          LET hs == hand_in.hands
              other == IdentifyHands(~swap_hands, hs)
          IN  /\ roles = IdentifyHands(swap_hands, hs)
              /\ roles.fret \in 0..Len(hs) /\ roles.strum \in 0..Len(hs)
              /\ roles.fret # 0 => roles.fret # roles.strum
              /\ Len(hs) = 1 => (roles.fret = 0) # (roles.strum = 0)
              /\ roles.fret # 0 =>
                    hs[roles.fret].label = (IF swap_hands THEN "Right" ELSE "Left")
              /\ roles.strum # 0 =>
                    hs[roles.strum].label = (IF swap_hands THEN "Left" ELSE "Right")
              /\ other.fret = roles.strum /\ other.strum = roles.fret

\* with SWAP_HANDS set, of two hands labelled "Left" and "Right" the
\* second is the fret hand and the first the strum hand
C34_Witness ==
    /\ HandsSeen
    /\ swap_hands
    /\ Len(hand_in.hands) = 2
    /\ hand_in.hands[1].label = "Left" /\ hand_in.hands[2].label = "Right"
    /\ roles = [fret |-> 2, strum |-> 1]

\* C35: in a tick without a strum hand, or in which a smoothed wrist is
\* still unset when the detector would run, detect_strum is not called, no
\* note is played or recorded, and cooldown, previous distance, history and
\* strum_count stay as they were; in a tick without a fret hand the
\* smoothed fret wrist and pole.position stay as they were.
C35_MissingHandsShortCircuit ==
    [][HandsTickStep =>
         /\ (roles'.strum = 0 \/ ~wrists'.left.set \/ ~wrists'.right.set) =>
               /\ strum_calls' = strum_calls
               /\ fretboard' = fretboard
               /\ strums' = strums
               /\ synth_log' = synth_log
               /\ recorder' = recorder
         /\ roles'.fret = 0 =>
               /\ wrists'.left = wrists.left
               /\ pole'.position = pole.position]_vars

\* after a strum in the second tick, a third tick in which no hand has a
\* role: the cooldown is still full, the wrist and the pole position are
\* those of the second tick
C35_Witness ==
    /\ hand_ticks = 3
    /\ roles = NoRoles
    /\ fretboard.strum_count = 1
    /\ fretboard.strum_cooldown = STRUM_COOLDOWN_FRAMES
    /\ wrists.left.set /\ wrists.right.set
    /\ pole.position # Rat(1, 2)

(* ---- shutdown and the synthesizer ---- *)

\* the step hands a call to the synthesizer driver
SynthCallStep == Len(synth_log') > Len(synth_log)

\* no play_note and no timer callback has failed on an empty reference
NothingRaised ==
    /\ \A t \in Threads : pc[t] # "raised"
    /\ \A i \in SeqIndices(timers) : timers[i].st # "raised"

\* C36: once shutdown has deleted the synthesizer no noteon and no noteoff
\* reaches it, and no play_note or timer callback fails because self._synth
\* has become None, however shutdown interleaves with play_note calls and
\* with callbacks already running.
C36_NoCallAfterRelease ==
    []NothingRaised /\ [][SynthCallStep => synth = "ready"]_vars

(* ---- one note per string ---- *)

\* no string's table entry is sounded by two calls of the latest strum, and
\* the strum makes no more calls than the instrument has strings
OncePerString ==
    /\ \A i, j \in 1..Len(handled.calls) :
          i # j => SoundedString(handled.calls[i]) # SoundedString(handled.calls[j])
    /\ Len(handled.calls) <= num_strings
    /\ Ready => Len(HandledNoteOns) <= num_strings

\* C37: one down-strum sounds no string of the instrument twice and plays
\* at most num_strings notes, whatever the touches are, unassigned (-1) and
\* out-of-range string indices included.
C37_OncePerString == handled.valid => OncePerString

\* The same for snapshots whose touches all carry a string index of the
\* instrument (0..num_strings-1).
C37_AssignedOncePerString ==
    (handled.valid /\ TouchedStrings \subseteq 0..(num_strings - 1)) => OncePerString

(* ---- every note ends ---- *)

\* positions of the calls that concern pitch p
CallsOn(p) == {k \in SeqIndices(synth_log) : p \in synth_log[k].notes}

\* the latest call the synthesizer received for pitch p is a noteon
Sounding(p) ==
    /\ CallsOn(p) # {}
    /\ synth_log[CHOOSE k \in CallsOn(p) : \A j \in CallsOn(p) : j <= k].op = "noteon"

\* C38: a pitch that is sounding eventually is not: the timer of the latest
\* play_note of the pitch sends its noteoff, or stop_all silences it;
\* play_note calls of other pitches do not prevent it.
C38_EveryNoteEnds == \A p \in Pitches : Sounding(p) ~> ~Sounding(p)

\* pitch 60 was played, then pitch 127, and the timer of the first call
\* has ended pitch 60 with no stop_all involved
C38_Witness ==
    /\ NoStopAll
    /\ Len(synth_log) = 3
    /\ synth_log[1].op = "noteon" /\ synth_log[1].notes = {60}
    /\ synth_log[2].op = "noteon" /\ synth_log[2].notes = {127}
    /\ synth_log[3].op = "noteoff" /\ synth_log[3].by = "timer"
    /\ ~Sounding(60) /\ Sounding(127)

-----------------------------------------------------------------------------
(* Every recorded event is handed off once *)

\* the record() calls the entries of a list came from
IdSet(ids) == {ids[i] : i \in DOMAIN ids}

\* the record() calls made while recording since the latest start
PendingIds == [i \in DOMAIN rec_calls |-> rec_calls[i].id]

\* a step that is a start: it opens a recording with no calls in it
StartStep == rec_open' /\ rec_calls' = << >> /\ rec_count' = rec_count /\ now' = now

\* C39: however record calls interleave with start and stop calls, no event
\* is returned by two different stop calls; every event appended while
\* recording is active is returned by the next stop, unless a start comes
\* first, and then it is discarded and no stop returns it.
C39_EachEventHandedOffOnce ==
    /\ [](/\ IdSet(rec_trace.ret_ids) \cap rec_trace.returned = {}
          /\ Cardinality(IdSet(rec_trace.ret_ids)) = Len(rec_trace.ret_ids)
          /\ (IdSet(rec_trace.ret_ids) \cup rec_trace.returned)
                \cap rec_trace.discarded = {}
          /\ rec_open <=> recorder.recording
          /\ Len(recorder.events) = Len(rec_calls))
    /\ [][~NotStopStep => /\ rec_trace'.ret_ids = PendingIds
                          /\ Len(rec_ret') = Len(PendingIds)]_vars
    /\ [][StartStep => /\ rec_trace'.discarded
                            = rec_trace.discarded \cup IdSet(PendingIds)
                       /\ recorder'.events = << >>]_vars

\* the first record call was discarded by a second start, the second was
\* returned by the first stop and the third by the second stop
C39_Witness ==
    /\ rec_trace.discarded = {1}
    /\ rec_trace.returned = {2}
    /\ rec_trace.ret_ids = <<3>>
    /\ Len(rec_ret) = 1
    /\ ~rec_open

-----------------------------------------------------------------------------
(* The endpoints of the pole stay paired and ordered *)

\* C40: after every sequence of update_pole_state calls end_a is unset
\* exactly when end_b is unset, detected implies that both endpoints are
\* set, and when both are set end_a.x <= end_b.x: the truncating smoothing
\* keeps the left-to-right order of the raw detections.
C40_EndpointsPairedAndOrdered ==
    /\ pole.end_a.set <=> pole.end_b.set
    /\ pole.detected => pole.end_a.set /\ pole.end_b.set
    /\ pole.end_a.set /\ pole.end_b.set => pole.end_a.x <= pole.end_b.x

\* raw endpoints in different columns were smoothed, with truncation, into
\* one column, away from both raw columns
C40_Witness ==
    /\ pole.detected
    /\ pole.end_a.x = pole.end_b.x
    /\ pole_raw.a.x < pole_raw.b.x
    /\ pole.end_a.x > pole_raw.b.x

====
